---------------------------- MODULE Spec2Model ----------------------------
(***************************************************************************)
(* A model of the ctdsLint audit core: the score aggregator, the category  *)
(* extractor and collection validator with its alias waiver, and the       *)
(* front ends that drive them.                                             *)
(*                                                                         *)
(* JavaScript strings are sequences of one-character strings, so that      *)
(* split, toLowerCase, trim, includes and the regular expressions are      *)
(* computed character by character.  JavaScript numbers are IEEE-754       *)
(* binary64: the quotient and the product of the score formula are         *)
(* computed bit by bit with round-to-nearest-even.                         *)
(***************************************************************************)
EXTENDS Integers, Sequences, FiniteSets, TLC

VARIABLES
    checks,                \* the AuditCheck[] handed to the score aggregator
    stats,                 \* what calculateAuditStats returned for it
    componentStats,        \* what calculateComponentStats returned for it
    collections,           \* LintVariableCollection[] of the audited file
    variables,             \* LintVariable[] of the audited file
    requirements,          \* CollectionRequirement[] the audit is run with
    collectionValidation,  \* what validateCollectionStructure returned
    extracted,             \* the category maps it extracted, one per collection found
    textStyles,            \* LintTextStyle[] of the audited file
    components,            \* LintComponent[] discovered in the audited file
    textStyleSync,         \* what validateTextStylesAgainstVariables returned
    textStyleBindings,     \* what validateTextStyleBindings returned
    componentBindings,     \* what validateAllComponentBindings returned
    pages,                 \* the pages of the document, each with its node tree
    discovered,            \* the components each front end found on the pages
    cli,                   \* a run of the command line front end
    scan,                  \* a component scan of the plugin, step by step
    ui,                    \* a message of the plugin UI and what was posted back
    audits                 \* what each system audit of the same file posted, in order

collVars == <<collections, variables, requirements, collectionValidation, extracted>>

scoreVars == <<checks, stats, componentStats>>

runVars == <<cli, scan, ui, audits>>

docVars == <<pages, discovered, runVars>>

styleVars ==
    <<textStyles, components, textStyleSync, textStyleBindings, componentBindings,
      docVars>>

vars == <<scoreVars, collVars, styleVars>>

\* the value of a result that has not been computed yet
NONE == [none |-> TRUE]

\* the collection side of the state before any file is loaded
CollIdle ==
    /\ collections = <<>>
    /\ variables = <<>>
    /\ requirements = <<>>
    /\ collectionValidation = NONE
    /\ extracted = <<>>

\* no run of a front end has started
RunIdle ==
    /\ cli = NONE
    /\ scan = NONE
    /\ ui = NONE
    /\ audits = <<>>

\* the document before any page is loaded
DocIdle ==
    /\ pages = <<>>
    /\ discovered = [cli |-> NONE, plugin |-> NONE]
    /\ RunIdle

\* the styles and components side of the state before any file is loaded
StyleIdle ==
    /\ DocIdle
    /\ textStyles = <<>>
    /\ components = <<>>
    /\ textStyleSync = NONE
    /\ textStyleBindings = NONE
    /\ componentBindings = NONE

(***************************************************************************)
(* Generic helpers on sequences.                                           *)
(***************************************************************************)
Range(s) == {s[i] : i \in 1..Len(s)}

RECURSIVE Replicate(_, _)
Replicate(x, n) == IF n = 0 THEN <<>> ELSE <<x>> \o Replicate(x, n - 1)

RECURSIVE Reverse(_)
Reverse(s) == IF s = <<>> THEN <<>> ELSE Reverse(Tail(s)) \o <<Head(s)>>

\* Array.prototype.filter(...).length for a predicate on the status field
RECURSIVE CountStatus(_, _)
CountStatus(cs, st) ==
    IF cs = <<>> THEN 0
    ELSE (IF Head(cs).status = st THEN 1 ELSE 0) + CountStatus(Tail(cs), st)

(***************************************************************************)
(* IEEE-754 binary64 arithmetic for the score formula.                     *)
(* A positive number is [top, frac, e]: its value is                       *)
(* (top + frac / 2^52) * 2^e, with top a small integer and frac the 52     *)
(* fraction bits held as LimbCount limbs of LimbBits bits, most            *)
(* significant first.  A double has top = 1 (53 significant bits).         *)
(***************************************************************************)
FractionBits == 52
LimbCount == 4
LimbBits == FractionBits \div LimbCount

RECURSIVE Pow2(_)
Pow2(n) == IF n = 0 THEN 1 ELSE 2 * Pow2(n - 1)

LimbBase == Pow2(LimbBits)

\* the least s >= 0 with p * 2^s >= t (0 < p <= t)
RECURSIVE NormShift(_, _)
NormShift(p, t) == IF p >= t THEN 0 ELSE 1 + NormShift(2 * p, t)

\* long division of rem / t (rem < t): n limbs of the quotient's fraction
\* in acc, then the remainder, as <<limbs, remainder>>
RECURSIVE QuotLimbs(_, _, _, _)
QuotLimbs(rem, t, n, acc) ==
    IF n = 0 THEN <<acc, rem>>
    ELSE QuotLimbs((rem * LimbBase) % t, t, n - 1,
                   Append(acc, (rem * LimbBase) \div t))

\* limbs + carry * 2^0 added at the least significant limb:
\* <<carry out, limbs>>
RECURSIVE AddLimbs(_, _, _, _)
AddLimbs(limbs, i, carry, acc) ==
    IF i = 0 THEN <<carry, acc>>
    ELSE AddLimbs(limbs, i - 1, (limbs[i] + carry) \div LimbBase,
                  <<(limbs[i] + carry) % LimbBase>> \o acc)

\* limbs * k: <<carry out, limbs>>
RECURSIVE TimesLimbs(_, _, _, _, _)
TimesLimbs(limbs, k, i, carry, acc) ==
    IF i = 0 THEN <<carry, acc>>
    ELSE TimesLimbs(limbs, k, i - 1, (limbs[i] * k + carry) \div LimbBase,
                    <<(limbs[i] * k + carry) % LimbBase>> \o acc)

\* the number of binary digits of n > 0
RECURSIVE BitLength(_)
BitLength(n) == IF n = 0 THEN 0 ELSE 1 + BitLength(n \div 2)

\* round-to-nearest, ties-to-even, of top.frac to 53 significant bits: the
\* low `drop` bits of the last limb go, together with what lies `below`
RoundNearestEven(top, frac, drop, below, e) ==
    LET last   == frac[LimbCount]
        unit   == Pow2(drop)
        low    == last % unit
        kept   == [frac EXCEPT ![LimbCount] = last - low]
        half   == IF drop = 0 THEN below[1] ELSE IF low >= unit \div 2 THEN 1 ELSE 0
        sticky == IF drop = 0 THEN below[2]
                  ELSE (low % (unit \div 2) # 0) \/ below[1] = 1 \/ below[2]
        odd    == (last \div unit) % 2 = 1
        up     == AddLimbs(kept, LimbCount, unit, <<>>)
    IN  IF half = 1 /\ (sticky \/ odd)
        THEN [top |-> top + up[1], frac |-> up[2], e |-> e]
        ELSE [top |-> top, frac |-> kept, e |-> e]

\* 2 * x / 2 with top brought back to one bit: 2.0 * 2^e is 1.0 * 2^(e+1)
Normalized(x) ==
    IF x.top = 2 THEN [top |-> 1, frac |-> x.frac, e |-> x.e + 1] ELSE x

\* the greatest k >= 0 with t * 2^k <= p (0 < t <= p)
RECURSIVE DenomShift(_, _)
DenomShift(p, t) == IF 2 * t > p THEN 0 ELSE 1 + DenomShift(p, 2 * t)

\* the double nearest to p / t, for integers p > 0 and t > 0: the operands
\* are scaled so that 1 <= num / den < 2, and the quotient is 1.frac * 2^e
DivDouble(p, t) ==
    LET s     == IF p >= t THEN 0 ELSE NormShift(p, t)
        k     == IF p >= t THEN DenomShift(p, t) ELSE 0
        num   == p * Pow2(s)
        den   == t * Pow2(k)
        q     == QuotLimbs(num - den, den, LimbCount, <<>>)
        guard == IF 2 * q[2] >= den THEN 1 ELSE 0
        left  == 2 * q[2] - guard * den
    IN  Normalized(RoundNearestEven(1, q[1], 0, <<guard, left # 0>>, k - s))

\* x >= y for two doubles (top = 1)
GeDouble(x, y) ==
    \/ x.e > y.e
    \/ /\ x.e = y.e
       /\ \/ x.frac = y.frac
          \/ \E i \in 1..LimbCount :
                /\ \A j \in 1..(i - 1) : x.frac[j] = y.frac[j]
                /\ x.frac[i] > y.frac[i]

\* the double nearest to x * k, for a double x and an integer 2 <= k < 2^12,
\* kept as top.frac * 2^e with top in k .. 2k
MulDouble(x, k) ==
    LET prod == TimesLimbs(x.frac, k, LimbCount, 0, <<>>)
        top  == x.top * k + prod[1]
    IN  RoundNearestEven(top, prod[2], BitLength(top) - 1, <<0, FALSE>>, x.e)

\* Math.round(x) = floor(x + 0.5), for x = top.frac * 2^e with e <= 0
MathRound(x) ==
    LET s == 0 - x.e
    IN  IF s = 0
        THEN x.top + (IF x.frac[1] >= LimbBase \div 2 THEN 1 ELSE 0)
        ELSE IF s > BitLength(x.top) THEN 0
        ELSE (x.top \div Pow2(s)) + ((x.top \div Pow2(s - 1)) % 2)

\* Math.round((passed / total) * 100) for integers 0 <= passed <= total, total > 0
ScoreOf(passed, total) ==
    IF passed = 0 THEN 0
    ELSE MathRound(MulDouble(DivDouble(passed, total), 100))

(***************************************************************************)
(* Score aggregator.                                                       *)
(***************************************************************************)
calculateAuditStats(cs) ==
    IF Len(cs) = 0
    THEN [score |-> 100, passed |-> 0, warnings |-> 0, failed |-> 0, total |-> 0]
    ELSE LET passed == CountStatus(cs, "pass")
             failed == CountStatus(cs, "fail")
             total  == Len(cs)
         IN  [score |-> ScoreOf(passed, total), passed |-> passed, warnings |-> 0,
              failed |-> failed, total |-> total]

calculateComponentStats(cs) ==
    IF Len(cs) = 0
    THEN [score |-> 100, passed |-> 0, failed |-> 0, total |-> 0]
    ELSE LET passed == CountStatus(cs, "pass")
             failed == CountStatus(cs, "fail")
             total  == Len(cs)
         IN  [score |-> ScoreOf(passed, total), passed |-> passed,
              failed |-> failed, total |-> total]

(***************************************************************************)
(* The score aggregator applied to check lists.  A check list is the       *)
(* concatenation of what the validators emitted; the aggregator reads only *)
(* the status of each entry.                                               *)
(***************************************************************************)
MaxChecks == 40
MaxWarnings == 2

Check(st) == [status |-> st]

ChecksOf(p, f, w) ==
    Replicate(Check("pass"), p) \o Replicate(Check("fail"), f)
        \o Replicate(Check("warning"), w)

ScoreIdle == checks = <<>> /\ stats = NONE /\ componentStats = NONE

InitScore ==
    /\ \E p \in 0..MaxChecks, f \in 0..MaxChecks, w \in 0..MaxWarnings :
          /\ p + f + w <= MaxChecks
          /\ checks \in {ChecksOf(p, f, w), Reverse(ChecksOf(p, f, w))}
    /\ stats = NONE
    /\ componentStats = NONE
    /\ CollIdle
    /\ StyleIdle

CalculateAuditStats ==
    /\ stats = NONE
    /\ stats' = calculateAuditStats(checks)
    /\ UNCHANGED <<checks, componentStats, collVars, styleVars>>

CalculateComponentStats ==
    /\ componentStats = NONE
    /\ componentStats' = calculateComponentStats(checks)
    /\ UNCHANGED <<checks, stats, collVars, styleVars>>

NextScore == CalculateAuditStats \/ CalculateComponentStats

SpecScore == InitScore /\ [][NextScore]_vars

\* round(100 * passed / total) in exact arithmetic, halves rounded up
RoundedPercent(passed, total) == (200 * passed + total) \div (2 * total)

StatsAgree(st, cs) ==
    /\ st.passed = CountStatus(cs, "pass")
    /\ st.failed = CountStatus(cs, "fail")
    /\ st.score \in 0..100
    /\ st.score = IF Len(cs) = 0 THEN 100
                  ELSE RoundedPercent(CountStatus(cs, "pass"), Len(cs))

\* C1: for every check list both aggregators return passed = the number of
\* pass checks, failed = the number of fail checks and score = round(100 *
\* passed / total), 100 for the empty list, always an integer in 0..100.
C1_ScoreIsRoundedPercent ==
    /\ stats # NONE => StatsAgree(stats, checks)
    /\ componentStats # NONE => StatsAgree(componentStats, checks)

RECURSIVE WithoutWarnings(_)
WithoutWarnings(cs) ==
    IF cs = <<>> THEN <<>>
    ELSE (IF Head(cs).status = "warning" THEN <<>> ELSE <<Head(cs)>>)
             \o WithoutWarnings(Tail(cs))

\* C2: warning checks are in neither the numerator nor the denominator of
\* the score: the score of a check list is the score calculateAuditStats
\* gives the same list with its warning checks removed.
C2_WarningsExcluded ==
    stats # NONE => stats.score = calculateAuditStats(WithoutWarnings(checks)).score

(***************************************************************************)
(* JavaScript strings, as sequences of one-character strings.              *)
(***************************************************************************)
UpperCase ==
    <<"A", "B", "C", "D", "E", "F", "G", "H", "I", "J", "K", "L", "M",
      "N", "O", "P", "Q", "R", "S", "T", "U", "V", "W", "X", "Y", "Z">>

LowerCase ==
    <<"a", "b", "c", "d", "e", "f", "g", "h", "i", "j", "k", "l", "m",
      "n", "o", "p", "q", "r", "s", "t", "u", "v", "w", "x", "y", "z">>

Digits == {"0", "1", "2", "3", "4", "5", "6", "7", "8", "9"}

WhiteSpace == {" ", "\t", "\n"}

Lower(c) ==
    IF \E i \in 1..Len(UpperCase) : UpperCase[i] = c
    THEN LowerCase[CHOOSE i \in 1..Len(UpperCase) : UpperCase[i] = c]
    ELSE c

\* String.prototype.toLowerCase
ToLowerCase(s) == [i \in 1..Len(s) |-> Lower(s[i])]

Min(S) == CHOOSE x \in S : \A y \in S : x <= y
Max(S) == CHOOSE x \in S : \A y \in S : x >= y

\* String.prototype.trim
Trim(s) ==
    LET inked == {i \in 1..Len(s) : s[i] \notin WhiteSpace}
    IN  IF inked = {} THEN <<>> ELSE SubSeq(s, Min(inked), Max(inked))

\* String.prototype.includes
Includes(s, t) ==
    \E i \in 0..(Len(s) - Len(t)) : SubSeq(s, i + 1, i + Len(t)) = t

\* String.prototype.endsWith
EndsWith(s, t) ==
    Len(t) <= Len(s) /\ SubSeq(s, Len(s) - Len(t) + 1, Len(s)) = t

\* the k-th smallest element of a set of integers
Kth(S, k) == CHOOSE x \in S : Cardinality({y \in S : y < x}) = k - 1

\* String.prototype.split('/'): never empty, '' gives ['']
Split(s) ==
    LET cuts  == {i \in 1..Len(s) : s[i] = "/"}
        n     == Cardinality(cuts)
        from(k) == IF k = 1 THEN 1 ELSE Kth(cuts, k - 1) + 1
        to(k)   == IF k = n + 1 THEN Len(s) ELSE Kth(cuts, k) - 1
    IN  [k \in 1..(n + 1) |-> SubSeq(s, from(k), to(k))]

\* Array.prototype.join('/') of the segments of a name
RECURSIVE Join(_)
Join(parts) ==
    IF Len(parts) = 0 THEN <<>>
    ELSE IF Len(parts) = 1 THEN parts[1]
    ELSE parts[1] \o <<"/">> \o Join(Tail(parts))

\* Array.prototype.slice(0, n)
Slice(s, n) == SubSeq(s, 1, IF Len(s) < n THEN Len(s) ELSE n)

\* Set.prototype.add on a Set kept in insertion order
SetAdd(s, x) == IF x \in Range(s) THEN s ELSE Append(s, x)

\* /primitives?/i, /brand/i, /theme/i: a case-insensitive search for the
\* pattern's literal (the optional trailing s of /primitives?/ adds nothing
\* to a search)
RegExpTest(literal, s) == Includes(ToLowerCase(s), literal)

\* /^(\d+)?(x+)?(xs|sm|md|lg|xl)$/i
TShirtSizes == {<<"x", "s">>, <<"s", "m">>, <<"m", "d">>, <<"l", "g">>, <<"x", "l">>}

TestTShirt(name) ==
    \E i \in 0..Len(name) : \E j \in i..Len(name) :
        /\ \A k \in 1..i : name[k] \in Digits
        /\ \A k \in (i + 1)..j : Lower(name[k]) = "x"
        /\ ToLowerCase(SubSeq(name, j + 1, Len(name))) \in TShirtSizes

\* a property that is absent from a record read from JSON
UNDEFINED == <<"undefined">>

(***************************************************************************)
(* Collection requirements (the declarative schema).                       *)
(* A template literal is kept as the name of its template together with    *)
(* the values substituted into it.                                         *)
(***************************************************************************)
NoPattern == [none |-> TRUE]

TShirtPattern ==
    [pattern     |-> "tshirt",
     description |-> "t-shirt size naming convention",
     examples    |-> <<<<"x", "s">>, <<"s", "m">>, <<"m", "d">>, <<"l", "g">>, <<"x", "l">>, <<"2", "x", "l">>, <<"3", "x", "l">>,
                       <<"2", "x", "s">>, <<"3", "x", "s">>>>]

\* a CategoryRequirement: optional fields absent are the empty list, FALSE,
\* NoPattern and the empty string
Category(name, subCategories, partial, pattern, mirror) ==
    [name |-> name, subCategories |-> subCategories,
     subCategoryPartialMatch |-> partial, subCategoryPattern |-> pattern,
     mirrorCategory |-> mirror]

Plain(name) == Category(name, <<>>, FALSE, NoPattern, <<>>)

DEFAULT_COLLECTION_REQUIREMENTS ==
    << [namePattern |-> <<"p", "r", "i", "m", "i", "t", "i", "v", "e">>, displayName |-> <<"P", "r", "i", "m", "i", "t", "i", "v", "e", "s">>,
        requiredCategories |-> << Plain(<<"c", "o", "l", "o", "r">>) >>],
       [namePattern |-> <<"b", "r", "a", "n", "d">>, displayName |-> <<"B", "r", "a", "n", "d">>,
        requiredCategories |->
            << Plain(<<"c", "o", "l", "o", "r">>),
               Category(<<"t", "y", "p", "o", "g", "r", "a", "p", "h", "y">>,
                        <<<<"f", "o", "n", "t", "-", "f", "a", "m", "i", "l", "y">>, <<"f", "o", "n", "t", "-", "w", "e", "i", "g", "h", "t">>, <<"f", "o", "n", "t", "-", "s", "i", "z", "e">>,
                          <<"l", "e", "t", "t", "e", "r", "-", "s", "p", "a", "c", "i", "n", "g">>, <<"l", "i", "n", "e", "-", "h", "e", "i", "g", "h", "t">>>>,
                        FALSE, NoPattern, <<>>) >>],
       [namePattern |-> <<"t", "h", "e", "m", "e">>, displayName |-> <<"T", "h", "e", "m", "e">>,
        requiredCategories |->
            << Category(<<"c", "o", "l", "o", "r", "s">>, <<<<"b", "g">>, <<"t", "e", "x", "t">>, <<"b", "o", "r", "d", "e", "r">>>>,
                        FALSE, NoPattern, <<>>),
               Category(<<"f", "o", "n", "t", "-", "f", "a", "m", "i", "l", "y">>,
                        <<<<"d", "i", "s", "p", "l", "a", "y">>, <<"h", "e", "a", "d", "i", "n", "g">>, <<"b", "o", "d", "y">>, <<"l", "a", "b", "e", "l">>>>,
                        TRUE, NoPattern, <<>>),
               Plain(<<"f", "o", "n", "t", "-", "w", "e", "i", "g", "h", "t">>),
               Category(<<"f", "o", "n", "t", "-", "s", "i", "z", "e">>, <<>>, FALSE, TShirtPattern, <<>>),
               Category(<<"l", "i", "n", "e", "-", "h", "e", "i", "g", "h", "t">>, <<>>, FALSE, NoPattern, <<"f", "o", "n", "t", "-", "s", "i", "z", "e">>),
               Category(<<"l", "e", "t", "t", "e", "r", "-", "s", "p", "a", "c", "i", "n", "g">>, <<>>, FALSE, NoPattern, <<"f", "o", "n", "t", "-", "s", "i", "z", "e">>),
               Plain(<<"s", "p", "a", "c", "i", "n", "g">>) >>] >>

(***************************************************************************)
(* Category extraction.  A Map<string, Set<string>> is a sequence of       *)
(* [category, subs] entries in insertion order, subs in insertion order.   *)
(***************************************************************************)
MapHas(categories, key) ==
    \E i \in 1..Len(categories) : categories[i].category = key

MapIndex(categories, key) ==
    CHOOSE i \in 1..Len(categories) : categories[i].category = key

\* categories.get(key) || new Set()
MapGet(categories, key) ==
    IF MapHas(categories, key) THEN categories[MapIndex(categories, key)].subs
    ELSE <<>>

\* (mutation) only the second segment becomes a sub-category
AddSecondSegment(subs, parts, i) ==
    IF Len(parts) >= 2 THEN SetAdd(subs, Trim(ToLowerCase(parts[2]))) ELSE subs

RECURSIVE AddSubCategories(_, _, _)
AddSubCategories(subs, parts, i) ==
    IF i > Len(parts) THEN subs
    ELSE AddSubCategories(SetAdd(subs, Trim(ToLowerCase(parts[i]))), parts, i + 1)

\* one iteration of extractCategories' loop
ExtractVariable(categories, name) ==
    LET parts       == Split(name)
        topCategory == Trim(ToLowerCase(parts[1]))
        withTop     == IF MapHas(categories, topCategory) THEN categories
                       ELSE Append(categories, [category |-> topCategory, subs |-> <<>>])
        at          == MapIndex(withTop, topCategory)
    IN  [withTop EXCEPT ![at].subs = AddSubCategories(@, parts, 2)]

RECURSIVE ExtractFrom(_, _, _)
ExtractFrom(vs, i, categories) ==
    IF i > Len(vs) THEN categories
    ELSE ExtractFrom(vs, i + 1, ExtractVariable(categories, vs[i].name))

extractCategories(vs) == ExtractFrom(vs, 1, <<>>)

\* variable.name.split throws a TypeError when the name is missing
ExtractThrows(vs) == \E i \in 1..Len(vs) : vs[i].name = UNDEFINED

(***************************************************************************)
(* validateCategories.                                                     *)
(***************************************************************************)
NoValidation == [none |-> TRUE]

\* (mutation) the partial mode is ignored
HasSubCategoryExact(reqCategory, subCategories, reqSub) ==
    ToLowerCase(reqSub) \in Range(subCategories)

\* the exact / partial membership test of one required sub-category
HasSubCategory(reqCategory, subCategories, reqSub) ==
    LET subName == ToLowerCase(reqSub)
    IN  IF reqCategory.subCategoryPartialMatch
        THEN \E i \in 1..Len(subCategories) : Includes(subCategories[i], subName)
        ELSE subName \in Range(subCategories)

SubCategoryListResult(reqCategory, subCategories) ==
    [category |-> reqCategory.name,
     found    |-> SelectSeq(reqCategory.subCategories,
                    LAMBDA r : HasSubCategory(reqCategory, subCategories, r)),
     missing  |-> SelectSeq(reqCategory.subCategories,
                    LAMBDA r : ~HasSubCategory(reqCategory, subCategories, r)),
     patternValidation |-> NoValidation,
     mirrorValidation  |-> NoValidation]

\* (mutation) one name off the pattern and nothing counts as found
PatternResultAllOrNothing(reqCategory, subCategories) ==
    LET invalidNames == SelectSeq(subCategories, LAMBDA n : ~TestTShirt(n))
    IN  [category |-> reqCategory.name,
         found    |-> IF Len(invalidNames) = 0 THEN subCategories ELSE <<>>,
         missing  |-> <<>>,
         patternValidation |->
            [allMatch     |-> Len(invalidNames) = 0 /\ Len(subCategories) > 0,
             invalidNames |-> invalidNames,
             patternDescription |-> reqCategory.subCategoryPattern.description,
             examples     |-> reqCategory.subCategoryPattern.examples],
         mirrorValidation |-> NoValidation]

PatternResult(reqCategory, subCategories) ==
    LET invalidNames == SelectSeq(subCategories, LAMBDA n : ~TestTShirt(n))
        validNames   == SelectSeq(subCategories, LAMBDA n : TestTShirt(n))
    IN  [category |-> reqCategory.name,
         found    |-> validNames,
         missing  |-> <<>>,
         patternValidation |->
            [allMatch     |-> Len(invalidNames) = 0 /\ Len(subCategories) > 0,
             invalidNames |-> invalidNames,
             patternDescription |-> reqCategory.subCategoryPattern.description,
             examples     |-> reqCategory.subCategoryPattern.examples],
         mirrorValidation |-> NoValidation]

\* (mutation) the sizes the source lacks are not looked for
MirrorResultOneSided(reqCategory, subCategories, categories) ==
    LET sourceSubCategories == MapGet(categories, ToLowerCase(reqCategory.mirrorCategory))
        missingSizes == SelectSeq(sourceSubCategories,
                                  LAMBDA z : z \notin Range(subCategories))
    IN  [category |-> reqCategory.name,
         found    |-> SelectSeq(subCategories,
                                LAMBDA z : z \in Range(sourceSubCategories)),
         missing  |-> missingSizes,
         patternValidation |-> NoValidation,
         mirrorValidation  |->
            [sourceCategory |-> reqCategory.mirrorCategory,
             missingSizes   |-> missingSizes,
             extraSizes     |-> <<>>,
             isFullMatch    |-> Len(missingSizes) = 0]]

MirrorResult(reqCategory, subCategories, categories) ==
    LET sourceCategory      == ToLowerCase(reqCategory.mirrorCategory)
        sourceSubCategories == MapGet(categories, sourceCategory)
        missingSizes == SelectSeq(sourceSubCategories,
                                  LAMBDA z : z \notin Range(subCategories))
        extraSizes   == SelectSeq(subCategories,
                                  LAMBDA z : z \notin Range(sourceSubCategories))
    IN  [category |-> reqCategory.name,
         found    |-> SelectSeq(subCategories,
                                LAMBDA z : z \in Range(sourceSubCategories)),
         missing  |-> missingSizes,
         patternValidation |-> NoValidation,
         mirrorValidation  |->
            [sourceCategory |-> reqCategory.mirrorCategory,
             missingSizes   |-> missingSizes,
             extraSizes     |-> extraSizes,
             isFullMatch    |-> Len(missingSizes) = 0 /\ Len(extraSizes) = 0]]

\* the sub-category results the loop body pushes for one found category
CategoryResults(reqCategory, categories) ==
    LET subCategories == MapGet(categories, ToLowerCase(reqCategory.name))
    IN  (IF Len(reqCategory.subCategories) > 0
         THEN <<SubCategoryListResult(reqCategory, subCategories)>> ELSE <<>>)
        \o (IF reqCategory.subCategoryPattern # NoPattern
            THEN <<PatternResult(reqCategory, subCategories)>> ELSE <<>>)
        \o (IF reqCategory.mirrorCategory # <<>>
            THEN <<MirrorResult(reqCategory, subCategories, categories)>> ELSE <<>>)

RECURSIVE SubCategoryResults(_, _, _)
SubCategoryResults(reqCategories, categories, i) ==
    IF i > Len(reqCategories) THEN <<>>
    ELSE (IF MapHas(categories, ToLowerCase(reqCategories[i].name))
          THEN CategoryResults(reqCategories[i], categories) ELSE <<>>)
         \o SubCategoryResults(reqCategories, categories, i + 1)

\* (mutation) the pattern rule passes only when every name matches
SubResultPassesAllMatch(r) ==
    /\ Len(r.missing) = 0
    /\ r.patternValidation # NoValidation => r.patternValidation.allMatch
    /\ r.mirrorValidation # NoValidation => r.mirrorValidation.isFullMatch

\* the test of subCategoryResults.every(...)
SubResultPasses(r) ==
    IF Len(r.missing) > 0 THEN FALSE
    ELSE IF r.patternValidation # NoValidation
            /\ r.patternValidation.allMatch = FALSE /\ Len(r.found) = 0 THEN FALSE
    ELSE IF r.mirrorValidation # NoValidation
            /\ ~r.mirrorValidation.isFullMatch THEN FALSE
    ELSE TRUE

NamesOf(reqCategories) == [i \in 1..Len(reqCategories) |-> reqCategories[i].name]

\* the return statement of validateCategories
CategoryValidation(collectionName, requirement, foundCategories, missingCategories, subCategoryResults) ==
    [collectionName     |-> collectionName,
     matchedRequirement |-> requirement.displayName,
     isValid            |->
        /\ Len(missingCategories) = 0
        /\ \A i \in 1..Len(subCategoryResults) : SubResultPasses(subCategoryResults[i]),
     foundCategories    |-> foundCategories,
     missingCategories  |-> missingCategories,
     subCategoryResults |-> subCategoryResults]

validateCategories(collectionName, requirement, categories) ==
    LET reqCategories == requirement.requiredCategories
        present(rc)   == MapHas(categories, ToLowerCase(rc.name))
    IN  CategoryValidation(collectionName, requirement,
            NamesOf(SelectSeq(reqCategories, present)),
            NamesOf(SelectSeq(reqCategories, LAMBDA rc : ~present(rc))),
            SubCategoryResults(reqCategories, categories, 1))

(***************************************************************************)
(* validateCollectionStructure.                                            *)
(***************************************************************************)
\* an AuditCheck: `check` is the template of the check's name with the
\* values substituted into it, `suggestion` the names the suggestion text
\* lists and the count it mentions (0 when it mentions none)
AuditCheck(template, displayName, category, source, status, listed, count) ==
    [check      |-> [template |-> template, displayName |-> displayName,
                     category |-> category, source |-> source],
     status     |-> status,
     suggestion |-> [listed |-> listed, count |-> count]]

\* slice(0, n).join(', ') + (length > n ? `, and ${length - n} more` : '')
Overflow(s, n) == IF Len(s) > n THEN Len(s) - n ELSE 0

\* collections.find(c => pattern.test(c.name)): the index, 0 when none
FindCollection(cols, literal) ==
    IF \E i \in 1..Len(cols) : RegExpTest(literal, cols[i].name)
    THEN Min({i \in 1..Len(cols) : RegExpTest(literal, cols[i].name)})
    ELSE 0

\* variablesByCollection.get(id) || []
VariablesOf(vs, id) == SelectSeq(vs, LAMBDA v : v.variableCollectionId = id)

IsAlias(value) == value.type = "VARIABLE_ALIAS"

\* the aliases into `ids` among the values of one variable, over its modes
RECURSIVE AliasesInto(_, _, _)
AliasesInto(valuesByMode, ids, i) ==
    IF i > Len(valuesByMode) THEN 0
    ELSE (IF IsAlias(valuesByMode[i]) /\ valuesByMode[i].id \in ids THEN 1 ELSE 0)
         + AliasesInto(valuesByMode, ids, i + 1)

RECURSIVE AliasCount(_, _, _)
AliasCount(themeVariables, ids, i) ==
    IF i > Len(themeVariables) THEN 0
    ELSE AliasesInto(themeVariables[i].valuesByMode, ids, 1)
         + AliasCount(themeVariables, ids, i + 1)

\* the pre-check: is Theme aliased to Primitives while Brand is absent
ThemeConnectedToPrimitives(cols, vs) ==
    LET primitivesCollection == FindCollection(cols, <<"p", "r", "i", "m", "i", "t", "i", "v", "e">>)
        themeCollection      == FindCollection(cols, <<"t", "h", "e", "m", "e">>)
        brandCollection      == FindCollection(cols, <<"b", "r", "a", "n", "d">>)
    IN  IF primitivesCollection # 0 /\ themeCollection # 0 /\ brandCollection = 0
        THEN LET themeVariables == VariablesOf(vs, cols[themeCollection].id)
                 primitivesVariableIds ==
                     {v.id : v \in Range(VariablesOf(vs, cols[primitivesCollection].id))}
                 aliasCount == AliasCount(themeVariables, primitivesVariableIds, 1)
             IN  /\ aliasCount > 0
                 /\ GeDouble(DivDouble(aliasCount, Len(themeVariables)),
                             DivDouble(1, 10))
        ELSE FALSE

\* the checks of one sub-category result of a collection that is not valid
SubResultChecks(displayName, r) ==
    (IF Len(r.missing) > 0
     THEN <<AuditCheck("sub-categories", displayName, r.category, <<>>, "fail",
                       Slice(r.missing, 5), Overflow(r.missing, 5))>>
     ELSE <<>>)
    \o (IF r.patternValidation # NoValidation
        THEN IF Len(r.found) = 0
             THEN <<AuditCheck("naming", displayName, r.category, <<>>, "fail",
                               Slice(r.patternValidation.examples, 3), 0)>>
             ELSE <<AuditCheck("naming", displayName, r.category, <<>>, "pass",
                               Slice(r.found, 5),
                               IF Len(r.found) > 5 THEN Len(r.found) ELSE 0)>>
        ELSE <<>>)
    \o (IF r.mirrorValidation # NoValidation
        THEN LET m == r.mirrorValidation
             IN  (IF Len(m.missingSizes) > 0
                  THEN <<AuditCheck("sizes", displayName, r.category, m.sourceCategory,
                                    "fail", Slice(m.missingSizes, 5),
                                    Overflow(m.missingSizes, 5))>>
                  ELSE <<>>)
                 \o (IF Len(m.extraSizes) > 0
                     THEN <<AuditCheck("extra sizes", displayName, r.category,
                                       m.sourceCategory, "fail",
                                       Slice(m.extraSizes, 5),
                                       Overflow(m.extraSizes, 5))>>
                     ELSE <<>>)
                 \o (IF m.isFullMatch /\ Len(r.found) > 0
                     THEN <<AuditCheck("mirrors", displayName, r.category,
                                       m.sourceCategory, "pass", <<>>, Len(r.found))>>
                     ELSE <<>>)
        ELSE <<>>)

RECURSIVE AllSubResultChecks(_, _, _)
AllSubResultChecks(displayName, results, i) ==
    IF i > Len(results) THEN <<>>
    ELSE SubResultChecks(displayName, results[i])
         \o AllSubResultChecks(displayName, results, i + 1)

\* (mutation) the structure check is pushed whatever the validity
ValidationChecksWithStructure(requirement, validationResult) ==
    <<AuditCheck("collection structure", requirement.displayName, <<>>, <<>>,
                 "pass", validationResult.foundCategories, 0)>>
    \o (IF Len(validationResult.missingCategories) > 0
        THEN <<AuditCheck("collection categories", requirement.displayName, <<>>,
                          <<>>, "fail", validationResult.missingCategories, 0)>>
        ELSE <<>>)

\* the audit checks generated for a collection that was found and validated
ValidationChecks(requirement, validationResult) ==
    IF validationResult.isValid
    THEN <<AuditCheck("collection structure", requirement.displayName, <<>>, <<>>,
                      "pass", validationResult.foundCategories, 0)>>
    ELSE (IF Len(validationResult.missingCategories) > 0
          THEN <<AuditCheck("collection categories", requirement.displayName, <<>>,
                            <<>>, "fail", validationResult.missingCategories, 0)>>
          ELSE <<>>)
         \o AllSubResultChecks(requirement.displayName,
                               validationResult.subCategoryResults, 1)

\* the checks pushed when no collection matches the requirement
MissingCollectionChecks(requirement, themeConnectedToPrimitives) ==
    IF requirement.displayName = <<"B", "r", "a", "n", "d">> /\ themeConnectedToPrimitives
    THEN <<AuditCheck("collection", requirement.displayName, <<>>, <<>>, "pass",
                      <<>>, 0)>>
    ELSE <<AuditCheck("collection", requirement.displayName, <<>>, <<>>, "fail",
                      NamesOf(requirement.requiredCategories), 0)>>

\* what the loop body pushes for a collection that was found
PushValidated(acc, requirement, categories, validationResult) ==
    [acc EXCEPT !.extracted            = Append(@, categories),
                !.validatedCollections = Append(@, validationResult),
                !.auditChecks = @ \o ValidationChecks(requirement, validationResult)]

Found(acc, requirement, collectionName, categories) ==
    PushValidated(acc, requirement, categories,
              validateCategories(collectionName, requirement, categories))

\* the loop over the requirements, from requirement i on; acc holds what was
\* pushed so far, and threw says the loop was left by an exception
RECURSIVE RequirementLoop(_, _, _, _, _, _)
RequirementLoop(cols, vs, reqs, connected, i, acc) ==
    IF i > Len(reqs) THEN acc
    ELSE LET requirement == reqs[i]
             matching    == FindCollection(cols, requirement.namePattern)
         IN  IF matching = 0
             THEN RequirementLoop(cols, vs, reqs, connected, i + 1,
                    [acc EXCEPT !.auditChecks =
                        @ \o MissingCollectionChecks(requirement, connected)])
             ELSE IF ExtractThrows(VariablesOf(vs, cols[matching].id))
             THEN [acc EXCEPT !.threw = TRUE]
             ELSE RequirementLoop(cols, vs, reqs, connected, i + 1,
                    Found(acc, requirement, cols[matching].name,
                          extractCategories(VariablesOf(vs, cols[matching].id))))

\* the overall summary check, put in front when every collection is valid
Summary(done) ==
    IF done.threw THEN done
    ELSE [done EXCEPT !.auditChecks =
             IF /\ Len(done.validatedCollections) > 0
                /\ \A i \in 1..Len(done.validatedCollections) :
                       done.validatedCollections[i].isValid
             THEN <<AuditCheck("Variable collection structure", <<>>, <<>>, <<>>,
                               "pass", [i \in 1..Len(done.validatedCollections) |->
                                   done.validatedCollections[i].matchedRequirement],
                               0)>> \o @
             ELSE @]

\* the try block
CollectionTry(cols, vs, reqs) ==
    Summary(RequirementLoop(cols, vs, reqs, ThemeConnectedToPrimitives(cols, vs), 1,
                [threw |-> FALSE, validatedCollections |-> <<>>,
                 missingCollections |-> <<>>, auditChecks |-> <<>>,
                 extracted |-> <<>>]))

\* (mutation) the checks pushed before the error are kept
CollectionCatchKeeping(tried, reqs) ==
    [hasAllCollections    |-> FALSE,
     validatedCollections |-> <<>>,
     missingCollections   |-> [i \in 1..Len(reqs) |-> reqs[i].displayName],
     auditChecks |-> Append(tried.auditChecks,
                        AuditCheck("Variable collection structure", <<>>, <<>>, <<>>,
                                   "fail", <<>>, 0))]

\* the catch block, given what the try block had built when it threw
CollectionCatch(tried, reqs) ==
    [hasAllCollections    |-> FALSE,
     validatedCollections |-> <<>>,
     missingCollections   |-> [i \in 1..Len(reqs) |-> reqs[i].displayName],
     auditChecks |-> <<AuditCheck("Variable collection structure", <<>>, <<>>, <<>>,
                                  "fail", <<>>, 0)>>]

\* what validateCollectionStructure returns, given how the try block ended
CollectionReturn(tried, reqs) ==
    IF tried.threw THEN CollectionCatch(tried, reqs)
    ELSE [hasAllCollections    |-> Len(tried.missingCollections) = 0,
          validatedCollections |-> tried.validatedCollections,
          missingCollections   |-> tried.missingCollections,
          auditChecks          |-> tried.auditChecks]

validateCollectionStructure(cols, vs, reqs) ==
    CollectionReturn(CollectionTry(cols, vs, reqs), reqs)

(***************************************************************************)
(* The file under audit and the audit of its collections.                  *)
(***************************************************************************)
Literal == [type |-> "LITERAL", id |-> 0]
Alias(id) == [type |-> "VARIABLE_ALIAS", id |-> id]

Variable(id, name, collectionId, valuesByMode) ==
    [id |-> id, name |-> name, variableCollectionId |-> collectionId,
     valuesByMode |-> valuesByMode]

\* a designer adds a variable to collection c, one literal value per mode
CreateVariable(name, c, modes) ==
    /\ collectionValidation = NONE
    /\ variables' = Append(variables,
           Variable(Len(variables) + 1, name, c, Replicate(Literal, modes)))
    /\ UNCHANGED <<collections, requirements, collectionValidation, extracted>>

\* the audit of the collections (handleSystemAudit, handleVariablesStylesAudit,
\* the CLI's main): validateCollectionStructure on the fetched data
RunCollectionValidation ==
    /\ collectionValidation = NONE
    /\ \E tried \in {CollectionTry(collections, variables, requirements)} :
           /\ collectionValidation' = CollectionReturn(tried, requirements)
           /\ extracted' = tried.extracted
    /\ UNCHANGED <<collections, variables, requirements>>

(***************************************************************************)
(* Category rules: one Theme collection, audited against a schema.         *)
(***************************************************************************)
MaxVariables == 3

Theme(requiredCategories) ==
    <<[namePattern |-> <<"t", "h", "e", "m", "e">>, displayName |-> <<"T", "h", "e", "m", "e">>,
       requiredCategories |-> requiredCategories]>>

\* the schemas the category rules are exercised with: the default one, and
\* one per rule kind (exact list, partial list, pattern with mirror, a list
\* longer than the suggestion prints, a list on a mirrored category)
Schemas ==
    { DEFAULT_COLLECTION_REQUIREMENTS,
      Theme(<<Category(<<"c", "o", "l", "o", "r", "s">>, <<<<"b", "g">>, <<"t", "e", "x", "t">>, <<"b", "o", "r", "d", "e", "r">>>>,
                       FALSE, NoPattern, <<>>)>>),
      Theme(<<Category(<<"f", "o", "n", "t", "-", "f", "a", "m", "i", "l", "y">>, <<<<"D", "i", "s", "p", "l", "a", "y">>, <<"b", "o", "d", "y">>>>,
                       TRUE, NoPattern, <<>>)>>),
      Theme(<<Category(<<"f", "o", "n", "t", "-", "s", "i", "z", "e">>, <<>>, FALSE, TShirtPattern, <<>>),
              Category(<<"l", "i", "n", "e", "-", "h", "e", "i", "g", "h", "t">>, <<>>, FALSE, NoPattern, <<"f", "o", "n", "t", "-", "s", "i", "z", "e">>)>>),
      Theme(<<Category(<<"c", "o", "l", "o", "r", "s">>,
                       <<<<"b", "g">>, <<"t", "e", "x", "t">>, <<"b", "o", "r", "d", "e", "r">>, <<"i", "c", "o", "n">>, <<"f", "i", "l", "l">>, <<"l", "i", "n", "k">>>>,
                       FALSE, NoPattern, <<>>)>>),
      Theme(<<Category(<<"l", "i", "n", "e", "-", "h", "e", "i", "g", "h", "t">>, <<<<"s", "m">>>>, FALSE, NoPattern,
                       <<"f", "o", "n", "t", "-", "s", "i", "z", "e">>)>>) }

VariableNames ==
    { <<"c", "o", "l", "o", "r", "s", "/", "b", "g", "/", "1">>, <<"c", "o", "l", "o", "r", "s", "/", "t", "e", "x", "t", "/", "1">>, <<"c", "o", "l", "o", "r", "s", "/", "b", "o", "r", "d", "e", "r">>, <<"C", "o", "l", "o", "r", "s", "/", " ", "B", "G">>,
      <<"c", "o", "l", "o", "r", "s">>,
      <<"f", "o", "n", "t", "-", "f", "a", "m", "i", "l", "y", "/", "d", "i", "s", "p", "l", "a", "y", "-", "p", "r", "i", "m", "a", "r", "y">>, <<"f", "o", "n", "t", "-", "f", "a", "m", "i", "l", "y", "/", "b", "o", "d", "y">>,
      <<"f", "o", "n", "t", "-", "s", "i", "z", "e", "/", "d", "i", "s", "p", "l", "a", "y", "/", "x", "l">>, <<"f", "o", "n", "t", "-", "s", "i", "z", "e", "/", "s", "m">>, <<"f", "o", "n", "t", "-", "s", "i", "z", "e", "/", "d", "i", "s", "p", "l", "a", "y">>,
      <<"l", "i", "n", "e", "-", "h", "e", "i", "g", "h", "t", "/", "s", "m">>, <<"l", "i", "n", "e", "-", "h", "e", "i", "g", "h", "t", "/", "d", "i", "s", "p", "l", "a", "y", "/", "x", "l">>, <<"l", "i", "n", "e", "-", "h", "e", "i", "g", "h", "t", "/", "m", "d">>,
      <<"s", "p", "a", "c", "i", "n", "g", "/", "4">> }

\* the category (first segment, normalised) of a variable name
CategoryOf(name) == Trim(ToLowerCase(Split(name)[1]))

\* the categories a schema reads: the required ones and the mirrored ones
SchemaCategories(reqs) ==
    UNION { {ToLowerCase(rc.name), ToLowerCase(rc.mirrorCategory)} :
            rc \in UNION {Range(r.requiredCategories) : r \in Range(reqs)} }

\* the names a file audited against a schema is built from: those of the
\* categories the schema reads, and one of a category it does not read
NamesFor(reqs) ==
    {n \in VariableNames : CategoryOf(n) \in SchemaCategories(reqs)}
        \cup {<<"s", "p", "a", "c", "i", "n", "g", "/", "4">>}

InitCategories ==
    /\ collections = <<[id |-> 1, name |-> <<"T", "h", "e", "m", "e">>]>>
    /\ variables = <<>>
    /\ requirements \in Schemas
    /\ collectionValidation = NONE
    /\ extracted = <<>>
    /\ ScoreIdle
    /\ StyleIdle

CreateThemeVariable ==
    /\ Len(variables) < MaxVariables
    /\ \E name \in NamesFor(requirements) : CreateVariable(name, 1, 1)
    /\ UNCHANGED <<scoreVars, styleVars>>

AuditCategories ==
    /\ RunCollectionValidation
    /\ UNCHANGED <<scoreVars, styleVars>>

NextCategories == CreateThemeVariable \/ AuditCategories

SpecCategories == InitCategories /\ [][NextCategories]_vars

(***************************************************************************)
(* Category rules: what is claimed of them, stated on sets.                *)
(***************************************************************************)
Results == collectionValidation.validatedCollections
AuditChecks == collectionValidation.auditChecks

\* the requirement a validation result was computed for
RequirementOf(v) ==
    CHOOSE r \in Range(requirements) : r.displayName = v.matchedRequirement

\* the names of the variables of the collection a result is about
NamesIn(v) ==
    {w.name : w \in {x \in Range(variables) :
        \E c \in Range(collections) :
            c.name = v.collectionName /\ c.id = x.variableCollectionId}}

\* a category map as a set of [category, set of sub-categories]
AsSets(categories) ==
    {[category |-> e.category, subs |-> Range(e.subs)] : e \in Range(categories)}

HasCategory(categories, name) ==
    \E e \in Range(categories) : e.category = ToLowerCase(name)

\* the sub-category set of a category, empty when the category is absent
SubsIn(categories, name) ==
    UNION {Range(e.subs) : e \in {x \in Range(categories) : x.category = ToLowerCase(name)}}

Verbatim(segment) == segment
Normal(segment) == Trim(ToLowerCase(segment))

\* the map from first segments to the sets of later segments, each segment
\* taken in the given form
SegmentMap(names, form(_)) ==
    {[category |-> c,
      subs |-> UNION {{form(Split(n)[k]) : k \in 2..Len(Split(n))} :
                      n \in {m \in names : form(Split(m)[1]) = c}}] :
     c \in {form(Split(n)[1]) : n \in names}}

ExtractionIsSegmentMap(form(_)) ==
    \A k \in 1..Len(extracted) :
        /\ AsSets(extracted[k]) = SegmentMap(NamesIn(Results[k]), form)
        /\ Cardinality(AsSets(extracted[k])) = Len(extracted[k])
        /\ \A e \in Range(extracted[k]) : Cardinality(Range(e.subs)) = Len(e.subs)

\* C6 (as stated): extraction maps each distinct first segment of the names
\* to the set of all later segments of the names with that first segment,
\* whatever the order of the variables and however often a name occurs.
C6_ExtractionBySegment == ExtractionIsSegmentMap(Verbatim)

\* C6 (amended): extraction maps each distinct first segment, lower-cased
\* and trimmed, to the set of all later segments, lower-cased and trimmed,
\* of the names with that first segment; a name without '/' gives a
\* category with no sub-categories; order and duplicates do not matter.
C6_ExtractionByNormalSegment == ExtractionIsSegmentMap(Normal)

C6_Witness ==
    /\ Len(extracted) = 1
    /\ {<<"c", "o", "l", "o", "r", "s", "/", "b", "g", "/", "1">>, <<"C", "o", "l", "o", "r", "s", "/", " ", "B", "G">>, <<"c", "o", "l", "o", "r", "s">>} = NamesIn(Results[1])
    /\ AsSets(extracted[1]) = {[category |-> <<"c", "o", "l", "o", "r", "s">>, subs |-> {<<"b", "g">>, <<"1">>}]}

\* the exact / partial membership of a required name in a sub-category set
SubFound(subs, rc, required) ==
    IF rc.subCategoryPartialMatch
    THEN \E x \in subs : Includes(x, required)
    ELSE required \in subs

RulesPass(categories, rc) ==
    LET subs == SubsIn(categories, rc.name)
    IN  /\ \A q \in Range(rc.subCategories) : SubFound(subs, rc, ToLowerCase(q))
        /\ rc.subCategoryPattern # NoPattern => \E x \in subs : TestTShirt(x)
        /\ rc.mirrorCategory # <<>> => subs = SubsIn(categories, rc.mirrorCategory)

ValidByRules(categories, requirement) ==
    \A rc \in Range(requirement.requiredCategories) :
        HasCategory(categories, rc.name) /\ RulesPass(categories, rc)

\* C4: a found collection is valid iff every required category is present
\* and, for each, the list rule misses no name, the pattern rule has at
\* least one matching sub-category and the mirror rule's set equals the
\* mirrored category's set.
C4_ValidIffRulesPass ==
    collectionValidation # NONE =>
        \A k \in 1..Len(Results) :
            Results[k].isValid
                <=> ValidByRules(extracted[k], RequirementOf(Results[k]))

\* valid although a sub-category of the pattern category does not match
C4_Witness ==
    /\ collectionValidation # NONE
    /\ Len(Results) = 1
    /\ Results[1].isValid
    /\ \E r \in Range(Results[1].subCategoryResults) :
          /\ r.patternValidation # NoValidation
          /\ Len(r.patternValidation.invalidNames) > 0

ChecksFor(displayName) ==
    SelectSeq(AuditChecks, LAMBDA c : c.check.displayName = displayName)

IsStructurePass(c) == c.check.template = "collection structure" /\ c.status = "pass"

\* C5: for a found collection, valid means its 'collection structure' pass
\* check and no fail check; not valid means at least one fail check and no
\* 'collection structure' pass check.
C5_ChecksAgreeWithValidity ==
    collectionValidation # NONE =>
        \A k \in 1..Len(Results) :
            LET cs == ChecksFor(Results[k].matchedRequirement)
            IN  IF Results[k].isValid
                THEN /\ \E i \in 1..Len(cs) : IsStructurePass(cs[i])
                     /\ \A i \in 1..Len(cs) : cs[i].status # "fail"
                ELSE /\ \E i \in 1..Len(cs) : cs[i].status = "fail"
                     /\ \A i \in 1..Len(cs) : ~IsStructurePass(cs[i])

\* not valid, with a pass check among the checks of the collection
C5_Witness ==
    /\ collectionValidation # NONE
    /\ Len(Results) = 1
    /\ ~Results[1].isValid
    /\ \E c \in Range(ChecksFor(Results[1].matchedRequirement)) : c.status = "pass"

\* the required categories of a result that are present in its collection
PresentCategories(k) ==
    {rc \in Range(RequirementOf(Results[k]).requiredCategories) :
        HasCategory(extracted[k], rc.name)}

ChecksNamed(template, displayName, category) ==
    SelectSeq(AuditChecks, LAMBDA c :
        /\ c.check.template = template
        /\ c.check.displayName = displayName
        /\ c.check.category = category)

NamingStatus(categories, rc) ==
    IF \E x \in SubsIn(categories, rc.name) : TestTShirt(x) THEN "pass" ELSE "fail"

\* C7 (as stated): a present category with a pattern rule gets a
\* '<category> naming' check, pass when at least one sub-category matches
\* the pattern and fail when none does.
C7_NamingCheckEmitted ==
    collectionValidation # NONE =>
        \A k \in 1..Len(Results) :
            \A rc \in {x \in PresentCategories(k) : x.subCategoryPattern # NoPattern} :
                LET cs == ChecksNamed("naming", Results[k].matchedRequirement, rc.name)
                IN  /\ Len(cs) >= 1
                    /\ \A i \in 1..Len(cs) :
                          cs[i].status = NamingStatus(extracted[k], rc)

\* C7 (amended): in a collection that is not valid, a present category with
\* a pattern rule gets exactly one '<category> naming' check, pass when at
\* least one sub-category matches the pattern and fail when none does; in a
\* valid collection it gets no naming check (and some sub-category matches).
C7_NamingCheckWhenNotValid ==
    collectionValidation # NONE =>
        \A k \in 1..Len(Results) :
            \A rc \in {x \in PresentCategories(k) : x.subCategoryPattern # NoPattern} :
                LET cs == ChecksNamed("naming", Results[k].matchedRequirement, rc.name)
                IN  IF Results[k].isValid
                    THEN Len(cs) = 0 /\ NamingStatus(extracted[k], rc) = "pass"
                    ELSE Len(cs) = 1 /\ cs[1].status = NamingStatus(extracted[k], rc)

\* font-size with sub-categories display, xl and sm: the naming check passes
C7_Witness ==
    /\ collectionValidation # NONE
    /\ Len(Results) = 1
    /\ SubsIn(extracted[1], <<"f", "o", "n", "t", "-", "s", "i", "z", "e">>) = {<<"d", "i", "s", "p", "l", "a", "y">>, <<"x", "l">>, <<"s", "m">>}
    /\ \E c \in Range(AuditChecks) :
          /\ c.check.template = "naming"
          /\ c.check.category = <<"f", "o", "n", "t", "-", "s", "i", "z", "e">>
          /\ c.status = "pass"

MirrorResultsFor(k, rc) ==
    SelectSeq(Results[k].subCategoryResults, LAMBDA r :
        r.category = rc.name /\ r.mirrorValidation # NoValidation)

\* C8: the mirror result of category C with source S has missingSizes =
\* subs(S) \ subs(C), extraSizes = subs(C) \ subs(S), each size once, and
\* isFullMatch iff both are empty; an absent S counts as the empty set.
C8_MirrorDifferences ==
    collectionValidation # NONE =>
        \A k \in 1..Len(Results) :
            \A rc \in {x \in PresentCategories(k) : x.mirrorCategory # <<>>} :
                LET rs == MirrorResultsFor(k, rc)
                    C  == SubsIn(extracted[k], rc.name)
                    S  == SubsIn(extracted[k], rc.mirrorCategory)
                IN  /\ Len(rs) = 1
                    /\ Range(rs[1].mirrorValidation.missingSizes) = S \ C
                    /\ Len(rs[1].mirrorValidation.missingSizes) = Cardinality(S \ C)
                    /\ Range(rs[1].mirrorValidation.extraSizes) = C \ S
                    /\ Len(rs[1].mirrorValidation.extraSizes) = Cardinality(C \ S)
                    /\ rs[1].mirrorValidation.isFullMatch <=> (S \ C = {} /\ C \ S = {})

\* three sizes in the source, two of them in the mirror: one missing, no extra
C8_Witness ==
    /\ collectionValidation # NONE
    /\ Len(Results) = 1
    /\ Cardinality(SubsIn(extracted[1], <<"f", "o", "n", "t", "-", "s", "i", "z", "e">>)) = 3
    /\ Cardinality(SubsIn(extracted[1], <<"l", "i", "n", "e", "-", "h", "e", "i", "g", "h", "t">>)) = 2
    /\ \E r \in Range(Results[1].subCategoryResults) :
          /\ r.mirrorValidation # NoValidation
          /\ r.mirrorValidation.missingSizes = <<<<"s", "m">>>>
          /\ r.mirrorValidation.extraSizes = <<>>
          /\ ~r.mirrorValidation.isFullMatch

ListResultsFor(k, rc) ==
    SelectSeq(Results[k].subCategoryResults, LAMBDA r :
        /\ r.category = rc.name
        /\ r.mirrorValidation = NoValidation
        /\ r.patternValidation = NoValidation)

NotFound(categories, rc, form(_)) ==
    SelectSeq(rc.subCategories,
              LAMBDA q : ~SubFound(SubsIn(categories, rc.name), rc, form(q)))

MaxThemeVariables == 11
MaxModes == 2
MaxAliases == 2

Primitives == [id |-> 1, name |-> <<"P", "r", "i", "m", "i", "t", "i", "v", "e", "s">>]
ThemeTokens == [id |-> 2, name |-> <<"T", "h", "e", "m", "e">>]
Brand == [id |-> 3, name |-> <<"B", "r", "a", "n", "d">>]

\* the collections of a file; a Primitives collection holds one variable
Files ==
    { [collections |-> <<Primitives, ThemeTokens>>,
       variables   |-> <<Variable(1, <<"c", "o", "l", "o", "r", "/", "r", "e", "d">>, 1, <<Literal>>)>>],
      [collections |-> <<Primitives, ThemeTokens, Brand>>,
       variables   |-> <<Variable(1, <<"c", "o", "l", "o", "r", "/", "r", "e", "d">>, 1, <<Literal>>)>>],
      [collections |-> <<ThemeTokens>>, variables |-> <<>>] }

ThemeVariables == VariablesOf(variables, ThemeTokens.id)

\* the values of the Theme variables that are aliases, over all modes
AliasValues(vs) ==
    AliasCount(vs, {vs[i].id : i \in 1..Len(vs)} \cup {Primitives.id}, 1)

InitWaiver ==
    /\ \E file \in Files :
          /\ collections = file.collections
          /\ variables = file.variables
    /\ requirements = DEFAULT_COLLECTION_REQUIREMENTS
    /\ collectionValidation = NONE
    /\ extracted = <<>>
    /\ ScoreIdle
    /\ StyleIdle

\* a Theme variable is added; every variable of a collection has one value
\* per mode of the collection
CreateThemeToken ==
    /\ Len(ThemeVariables) < MaxThemeVariables
    /\ \E modes \in 1..MaxModes :
          /\ ThemeVariables # <<>> => modes = Len(ThemeVariables[1].valuesByMode)
          /\ CreateVariable(<<"c", "o", "l", "o", "r", "s", "/", "b", "g">>, ThemeTokens.id, modes)
    /\ UNCHANGED <<scoreVars, styleVars>>

\* the value of a Theme variable in one mode is made an alias of one of the
\* first two variables of the file
SetValueForMode ==
    /\ collectionValidation = NONE
    /\ AliasValues(ThemeVariables) < MaxAliases
    /\ \E i \in 1..Len(variables), target \in 1..Min({2, Len(variables)}) :
          /\ variables[i].variableCollectionId = ThemeTokens.id
          /\ target # i
          /\ \E mode \in 1..Len(variables[i].valuesByMode) :
                /\ ~IsAlias(variables[i].valuesByMode[mode])
                /\ variables' = [variables EXCEPT
                       ![i].valuesByMode[mode] = Alias(variables[target].id)]
    /\ UNCHANGED <<collections, requirements, collectionValidation, extracted>>
    /\ UNCHANGED <<scoreVars, styleVars>>

AuditWaiver ==
    /\ RunCollectionValidation
    /\ UNCHANGED <<scoreVars, styleVars>>

NextWaiver == CreateThemeToken \/ SetValueForMode \/ AuditWaiver

SpecWaiver == InitWaiver /\ [][NextWaiver]_vars

HasCollection(literal) == FindCollection(collections, literal) # 0

RECURSIVE Sum(_, _)
Sum(f, i) == IF i > Len(f) THEN 0 ELSE f[i] + Sum(f, i + 1)

\* the values of the Theme variables over all modes, and those of them that
\* are aliases of a Primitives variable
ThemeValueCount ==
    Sum([i \in 1..Len(ThemeVariables) |-> Len(ThemeVariables[i].valuesByMode)], 1)

PrimitivesIds == {v.id : v \in Range(VariablesOf(variables, Primitives.id))}

ThemeAliasCount ==
    Sum([i \in 1..Len(ThemeVariables) |->
            Cardinality({mode \in 1..Len(ThemeVariables[i].valuesByMode) :
                /\ IsAlias(ThemeVariables[i].valuesByMode[mode])
                /\ ThemeVariables[i].valuesByMode[mode].id \in PrimitivesIds})], 1)

BrandChecks == ChecksNamed("collection", <<"B", "r", "a", "n", "d">>, <<>>)

\* C10: with Primitives and Theme but no Brand collection, the Brand
\* requirement is reported pass iff at least a tenth of Theme's values, over
\* all modes, are aliases of Primitives variables, and fail otherwise.
C10_BrandWaivedAtTenthOfValues ==
    (/\ collectionValidation # NONE
     /\ HasCollection(<<"p", "r", "i", "m", "i", "t", "i", "v", "e">>) /\ HasCollection(<<"t", "h", "e", "m", "e">>)
     /\ ~HasCollection(<<"b", "r", "a", "n", "d">>)) =>
        /\ Len(BrandChecks) = 1
        /\ BrandChecks[1].status =
              IF ThemeValueCount > 0 /\ 10 * ThemeAliasCount >= ThemeValueCount
              THEN "pass" ELSE "fail"

(***************************************************************************)
(* validateTextStylesAgainstVariables.                                     *)
(***************************************************************************)
\* name.split('/').map(p => p.toLowerCase().trim())
NormalParts(parts) == [k \in 1..Len(parts) |-> Trim(ToLowerCase(parts[k]))]

SplitNormal(name) == NormalParts(Split(name))

\* a LintTextStyle; boundVariables gives the id bound to each typography
\* property, 0 where the property has no binding
TextStyle(name, boundVariables) == [name |-> name, boundVariables |-> boundVariables]

\* a check of the text style and component validators that carry no names
\* in their title
PlainCheck(check, status, listed, count) ==
    AuditCheck(check, <<>>, <<>>, <<>>, status, listed, count)

AddFontFamily(fontFamilyVariables, parts) ==
    IF parts[1] = <<"f", "o", "n", "t", "-", "f", "a", "m", "i", "l", "y">> /\ Len(parts) > 1
    THEN SetAdd(fontFamilyVariables, parts[2])
    ELSE fontFamilyVariables

RECURSIVE FontFamilyVariables(_, _, _)
FontFamilyVariables(themeVariables, i, acc) ==
    IF i > Len(themeVariables) THEN acc
    ELSE FontFamilyVariables(themeVariables, i + 1,
             AddFontFamily(acc, SplitNormal(themeVariables[i].name)))

RECURSIVE TextStyleCategories(_, _, _)
TextStyleCategories(styles, i, acc) ==
    IF i > Len(styles) THEN acc
    ELSE TextStyleCategories(styles, i + 1,
             SetAdd(acc, SplitNormal(styles[i].name)[1]))

\* cat.includes(v) || v.includes(cat)
PartialMatch(a, b) == Includes(a, b) \/ Includes(b, a)

typographyPatterns ==
    <<<<"d", "i", "s", "p", "l", "a", "y">>, <<"h", "e", "a", "d", "i", "n", "g">>, <<"b", "o", "d", "y">>, <<"l", "a", "b", "e", "l">>, <<"c", "a", "p", "t", "i", "o", "n">>, <<"t", "i", "t", "l", "e">>,
      <<"s", "u", "b", "t", "i", "t", "l", "e">>, <<"o", "v", "e", "r", "l", "i", "n", "e">>>>

RelevantTextCategories(textStyleCategories) ==
    SelectSeq(textStyleCategories, LAMBDA cat :
        \E k \in 1..Len(typographyPatterns) : Includes(cat, typographyPatterns[k]))

\* (mutation) the pass check only looks at the variables' side
SyncChecksPassOneSided(fontFamilyVariables, styles, relevant, variablesMissingStyles, stylesMissingVariables) ==
    IF Len(fontFamilyVariables) = 0 /\ Len(styles) = 0 THEN <<>>
    ELSE IF Len(fontFamilyVariables) = 0 /\ Len(styles) > 0
    THEN <<PlainCheck("Font-family variables", "warning",
                      Slice(relevant, 3), Overflow(relevant, 3))>>
    ELSE IF Len(fontFamilyVariables) > 0 /\ Len(styles) = 0
    THEN <<PlainCheck("Text styles", "warning",
                      Slice(fontFamilyVariables, 3), Overflow(fontFamilyVariables, 3))>>
    ELSE (IF Len(variablesMissingStyles) > 0
          THEN <<PlainCheck("Text styles for font-family variables", "fail",
                            Slice(variablesMissingStyles, 3),
                            Overflow(variablesMissingStyles, 3))>>
          ELSE <<>>)
         \o (IF Len(stylesMissingVariables) > 0
             THEN <<PlainCheck("Font-family variables for text styles", "fail",
                               Slice(stylesMissingVariables, 3),
                               Overflow(stylesMissingVariables, 3))>>
             ELSE <<>>)
         \o (IF Len(variablesMissingStyles) = 0 /\ Len(fontFamilyVariables) > 0
             THEN <<PlainCheck("Text styles & font-family sync", "pass",
                               fontFamilyVariables, 0)>>
             ELSE <<>>)

\* (mutation) a side without data is reported as a failure
SyncChecksDegenerateFail(fontFamilyVariables, styles, relevant, variablesMissingStyles, stylesMissingVariables) ==
    IF Len(fontFamilyVariables) = 0 /\ Len(styles) = 0 THEN <<>>
    ELSE IF Len(fontFamilyVariables) = 0 /\ Len(styles) > 0
    THEN <<PlainCheck("Font-family variables", "fail",
                      Slice(relevant, 3), Overflow(relevant, 3))>>
    ELSE IF Len(fontFamilyVariables) > 0 /\ Len(styles) = 0
    THEN <<PlainCheck("Text styles", "fail",
                      Slice(fontFamilyVariables, 3), Overflow(fontFamilyVariables, 3))>>
    ELSE <<>>

\* the audit checks of the four cases
SyncChecks(fontFamilyVariables, styles, relevant, variablesMissingStyles, stylesMissingVariables) ==
    IF Len(fontFamilyVariables) = 0 /\ Len(styles) = 0 THEN <<>>
    ELSE IF Len(fontFamilyVariables) = 0 /\ Len(styles) > 0
    THEN <<PlainCheck("Font-family variables", "warning",
                      Slice(relevant, 3), Overflow(relevant, 3))>>
    ELSE IF Len(fontFamilyVariables) > 0 /\ Len(styles) = 0
    THEN <<PlainCheck("Text styles", "warning",
                      Slice(fontFamilyVariables, 3), Overflow(fontFamilyVariables, 3))>>
    ELSE (IF Len(variablesMissingStyles) > 0
          THEN <<PlainCheck("Text styles for font-family variables", "fail",
                            Slice(variablesMissingStyles, 3),
                            Overflow(variablesMissingStyles, 3))>>
          ELSE <<>>)
         \o (IF Len(stylesMissingVariables) > 0
             THEN <<PlainCheck("Font-family variables for text styles", "fail",
                               Slice(stylesMissingVariables, 3),
                               Overflow(stylesMissingVariables, 3))>>
             ELSE <<>>)
         \o (IF /\ Len(variablesMissingStyles) = 0
                /\ Len(stylesMissingVariables) = 0
                /\ Len(fontFamilyVariables) > 0
             THEN <<PlainCheck("Text styles & font-family sync", "pass",
                               fontFamilyVariables, 0)>>
             ELSE <<>>)

\* the comparison and the return statement of the try block
SyncCompared(fontFamilyVariables, textStyleCategories, styles, variablesMissingStyles, stylesMissingVariables) ==
    [threw |-> FALSE,
     validation |->
        [fontFamilyVariables    |-> fontFamilyVariables,
         textStyleCategories    |-> textStyleCategories,
         variablesMissingStyles |-> variablesMissingStyles,
         stylesMissingVariables |-> stylesMissingVariables,
         isFullMatch |-> Len(variablesMissingStyles) = 0
                             /\ Len(stylesMissingVariables) = 0],
     auditChecks |-> SyncChecks(fontFamilyVariables, styles,
                                RelevantTextCategories(textStyleCategories),
                                variablesMissingStyles, stylesMissingVariables)]

\* (mutation) the variables are compared with the relevant categories only
SyncCompareRelevantOnly(fontFamilyVariables, textStyleCategories, styles) ==
    SyncCompared(fontFamilyVariables, textStyleCategories, styles,
        SelectSeq(fontFamilyVariables, LAMBDA v :
            ~\E k \in 1..Len(RelevantTextCategories(textStyleCategories)) :
                PartialMatch(RelevantTextCategories(textStyleCategories)[k], v)),
        SelectSeq(RelevantTextCategories(textStyleCategories), LAMBDA c :
            ~\E k \in 1..Len(fontFamilyVariables) :
                PartialMatch(c, fontFamilyVariables[k])))

SyncCompare(fontFamilyVariables, textStyleCategories, styles) ==
    SyncCompared(fontFamilyVariables, textStyleCategories, styles,
        SelectSeq(fontFamilyVariables, LAMBDA v :
            ~\E k \in 1..Len(textStyleCategories) :
                PartialMatch(textStyleCategories[k], v)),
        SelectSeq(RelevantTextCategories(textStyleCategories), LAMBDA c :
            ~\E k \in 1..Len(fontFamilyVariables) :
                PartialMatch(c, fontFamilyVariables[k])))

\* the Theme variables the first loop reads ([] without a Theme collection)
SyncThemeVariables(cols, vs) ==
    IF FindCollection(cols, <<"t", "h", "e", "m", "e">>) = 0 THEN <<>>
    ELSE VariablesOf(vs, cols[FindCollection(cols, <<"t", "h", "e", "m", "e">>)].id)

\* the try block; a missing name makes split throw before any check exists
TextStyleSyncTry(cols, vs, styles) ==
    IF \/ \E i \in 1..Len(SyncThemeVariables(cols, vs)) :
             SyncThemeVariables(cols, vs)[i].name = UNDEFINED
       \/ \E i \in 1..Len(styles) : styles[i].name = UNDEFINED
    THEN [threw |-> TRUE, auditChecks |-> <<>>]
    ELSE SyncCompare(FontFamilyVariables(SyncThemeVariables(cols, vs), 1, <<>>),
                     TextStyleCategories(styles, 1, <<>>), styles)

\* the catch block
TextStyleSyncCatch(tried) ==
    [validation |->
        [fontFamilyVariables    |-> <<>>,
         textStyleCategories    |-> <<>>,
         variablesMissingStyles |-> <<>>,
         stylesMissingVariables |-> <<>>,
         isFullMatch |-> FALSE],
     auditChecks |-> <<PlainCheck("Text style validation", "fail", <<>>, 0)>>]

TextStyleSyncReturn(tried) ==
    IF tried.threw THEN TextStyleSyncCatch(tried)
    ELSE [validation |-> tried.validation, auditChecks |-> tried.auditChecks]

validateTextStylesAgainstVariables(cols, vs, styles) ==
    TextStyleSyncReturn(TextStyleSyncTry(cols, vs, styles))

(***************************************************************************)
(* validateTextStyleBindings.                                              *)
(***************************************************************************)
TYPOGRAPHY_PROPERTIES == <<"fontFamily", "fontSize", "letterSpacing", "lineHeight">>

\* the token a variable bound to the property has to carry in its name
PropertyToken(prop) ==
    CASE prop = "fontFamily"    -> <<"f", "o", "n", "t", "-", "f", "a", "m", "i", "l", "y">>
      [] prop = "fontSize"      -> <<"f", "o", "n", "t", "-", "s", "i", "z", "e">>
      [] prop = "letterSpacing" -> <<"l", "e", "t", "t", "e", "r", "-", "s", "p", "a", "c", "i", "n", "g">>
      [] prop = "lineHeight"    -> <<"l", "i", "n", "e", "-", "h", "e", "i", "g", "h", "t">>

\* variableIdToName.get(id) || 'unknown': the map holds the lower-cased name
\* of the last variable with that id
VariableNameOf(vs, id) ==
    LET with == {i \in 1..Len(vs) : vs[i].id = id}
    IN  IF with = {} \/ vs[Max(with)].name = <<>> THEN <<"u", "n", "k", "n", "o", "w", "n">>
        ELSE ToLowerCase(vs[Max(with)].name)

IsCorrectBinding(prop, variableName, category, size) ==
    IF prop = "fontFamily"
    THEN Includes(variableName, PropertyToken(prop)) /\ Includes(variableName, category)
    ELSE /\ Includes(variableName, PropertyToken(prop))
         /\ (EndsWith(variableName, size) \/ Includes(variableName, <<"/">> \o size))

BoundProperty(prop, variableName, category, size) ==
    [property        |-> prop,
     variableName    |-> variableName,
     isCorrectBinding |-> IsCorrectBinding(prop, variableName, category, size),
     expectedPattern |-> PropertyToken(prop) \o <<"/">>
                             \o (IF prop = "fontFamily" THEN category ELSE size)]

\* binding && binding.id
IsBound(style, prop) == style.boundVariables[prop] # 0

StyleBindingResult(styleName, category, size, boundProperties, unboundProperties) ==
    [styleName         |-> styleName,
     category          |-> category,
     size              |-> size,
     boundProperties   |-> boundProperties,
     unboundProperties |-> unboundProperties,
     isFullyBound      |-> Len(unboundProperties) = 0,
     hasCorrectBindings |->
        \A k \in 1..Len(boundProperties) : boundProperties[k].isCorrectBinding]

\* the entries pushed to boundProperties, for the bound properties props
BoundProperties(props, style, vs, category, size) ==
    [k \in 1..Len(props) |->
        BoundProperty(props[k], VariableNameOf(vs, style.boundVariables[props[k]]),
                      category, size)]

\* (mutation) a binding whose id the file does not hold counts as unbound
StyleBindingKnownOnly(style, vs, category, size) ==
    StyleBindingResult(style.name, category, size,
        BoundProperties(SelectSeq(TYPOGRAPHY_PROPERTIES, LAMBDA p :
                            IsBound(style, p)
                            /\ \E i \in 1..Len(vs) : vs[i].id = style.boundVariables[p]),
                        style, vs, category, size),
        SelectSeq(TYPOGRAPHY_PROPERTIES, LAMBDA p :
            ~(IsBound(style, p)
              /\ \E i \in 1..Len(vs) : vs[i].id = style.boundVariables[p])))

\* the loop body for a style whose name has at least two segments
StyleBinding(style, vs, category, size) ==
    StyleBindingResult(style.name, category, size,
        BoundProperties(SelectSeq(TYPOGRAPHY_PROPERTIES, LAMBDA p : IsBound(style, p)),
                        style, vs, category, size),
        SelectSeq(TYPOGRAPHY_PROPERTIES, LAMBDA p : ~IsBound(style, p)))

\* (mutation) size is always the last part
StyleSizeLast(nameParts) == nameParts[Len(nameParts)]

\* size: the middle part of three or more, the last part of two
StyleSize(nameParts) ==
    IF Len(nameParts) >= 3 THEN nameParts[2] ELSE nameParts[Len(nameParts)]

\* results.push and stylesWithIssues.push
PushStyle(acc, result) ==
    [acc EXCEPT
        !.results = Append(@, result),
        !.stylesWithIssues =
            IF Len(result.unboundProperties) > 0 \/ ~result.hasCorrectBindings
            THEN Append(@, [styleName    |-> result.styleName,
                            unboundProps |-> result.unboundProperties,
                            incorrectBindings |->
                                SelectSeq(result.boundProperties,
                                          LAMBDA b : ~b.isCorrectBinding)])
            ELSE @]

\* (mutation) a style whose name has one part is evaluated as well
StyleStepNoSkip(acc, style, vs, nameParts) ==
    PushStyle(acc, StyleBinding(style, vs, nameParts[1], StyleSize(nameParts)))

StyleStep(acc, style, vs, nameParts) ==
    IF Len(nameParts) < 2 THEN acc
    ELSE PushStyle(acc, StyleBinding(style, vs, nameParts[1], StyleSize(nameParts)))

\* the loop over the text styles, from style i on
RECURSIVE StyleLoop(_, _, _, _)
StyleLoop(styles, vs, i, acc) ==
    IF i > Len(styles) THEN acc
    ELSE IF styles[i].name = UNDEFINED THEN [acc EXCEPT !.threw = TRUE]
    ELSE StyleLoop(styles, vs, i + 1,
                   StyleStep(acc, styles[i], vs, SplitNormal(styles[i].name)))

StyleNames(issues) == [k \in 1..Len(issues) |-> issues[k].styleName]

BindingChecks(totalStyles, unboundIssues, bindingIssues) ==
    IF totalStyles = 0 THEN <<>>
    ELSE (IF Len(unboundIssues) > 0
          THEN <<PlainCheck("Text style variable bindings", "fail",
                            StyleNames(unboundIssues), Len(unboundIssues))>>
          ELSE <<>>)
         \o (IF Len(bindingIssues) > 0
             THEN <<PlainCheck("Text style variable naming", "fail",
                               StyleNames(bindingIssues), Len(bindingIssues))>>
             ELSE <<>>)
         \o (IF Len(unboundIssues) = 0 /\ Len(bindingIssues) = 0 /\ totalStyles > 0
             THEN <<PlainCheck("Text style variable bindings", "pass", <<>>,
                               totalStyles)>>
             ELSE <<>>)

\* the audit checks generated after the loop
BindingsChecked(done) ==
    IF done.threw THEN done
    ELSE [done EXCEPT !.auditChecks =
            BindingChecks(Len(done.results),
                SelectSeq(done.stylesWithIssues, LAMBDA s : Len(s.unboundProps) > 0),
                SelectSeq(done.stylesWithIssues, LAMBDA s : Len(s.incorrectBindings) > 0))]

\* the try block: the id-to-name map reads the name of every variable
TextStyleBindingsTry(styles, vs) ==
    IF \E i \in 1..Len(vs) : vs[i].name = UNDEFINED
    THEN [threw |-> TRUE, results |-> <<>>, stylesWithIssues |-> <<>>,
          auditChecks |-> <<>>]
    ELSE BindingsChecked(StyleLoop(styles, vs, 1,
             [threw |-> FALSE, results |-> <<>>, stylesWithIssues |-> <<>>,
              auditChecks |-> <<>>]))

\* the catch block: the results gathered so far and one check
TextStyleBindingsCatch(tried) ==
    [results     |-> tried.results,
     auditChecks |-> <<PlainCheck("Text style variable bindings", "fail", <<>>, 0)>>]

TextStyleBindingsReturn(tried) ==
    IF tried.threw THEN TextStyleBindingsCatch(tried)
    ELSE [results |-> tried.results, auditChecks |-> tried.auditChecks]

validateTextStyleBindings(styles, vs) ==
    TextStyleBindingsReturn(TextStyleBindingsTry(styles, vs))

(***************************************************************************)
(* validateComponentBindings and validateAllComponentBindings.             *)
(* A node carries its fills and its children; every fill is a visible      *)
(* solid paint, bound to a variable or not, whose colour is opaque,        *)
(* transparent or missing from the data.                                   *)
(***************************************************************************)
\* a paint of a node's fills: its type, whether it is visible, whether
\* boundVariables.fills holds an id at its index, and its colour
Paint(type, visible, bound, color) ==
    [type |-> type, visible |-> visible, bound |-> bound, color |-> color]

Fill(bound, color) == Paint("SOLID", TRUE, bound, color)

Node(name, fills, children) == [name |-> name, fills |-> fills, children |-> children]

Component(node, pageName) == [node |-> node, pageName |-> pageName]

\* collectAllNodes: the node, then the nodes of each child in order
RECURSIVE collectAllNodes(_)
RECURSIVE CollectChildren(_, _)
CollectChildren(children, i) ==
    IF i > Len(children) THEN <<>>
    ELSE collectAllNodes(children[i]) \o CollectChildren(children, i + 1)

collectAllNodes(node) == <<node>> \o CollectChildren(node.children, 1)

\* isTransparentColor(fill.color) reads color.a: a TypeError without colour
FillThrows(fill) ==
    fill.type = "SOLID" /\ fill.visible /\ ~fill.bound /\ fill.color = "undefined"

\* (mutation) hidden paints are counted as well
IsRawFillHidden(fill) == fill.type = "SOLID" /\ ~fill.bound /\ fill.color = "opaque"

IsRawFill(fill) ==
    fill.type = "SOLID" /\ fill.visible /\ ~fill.bound /\ fill.color = "opaque"

\* a binding that holds no id (undefined, null, or an
\* object without id); a binding that holds one is the id
NoBinding == 0

\* fillBindings[index] && fillBindings[index].id
HasBinding(bindings, index) == index <= Len(bindings) /\ bindings[index] # NoBinding

\* the fills of a node as the scanner reads them, each with whether
\* boundVariables.fills holds an id at its index
FillsOf(node) ==
    IF "boundVariables" \in DOMAIN node /\ "fills" \in DOMAIN node.boundVariables
    THEN [index \in 1..Len(node.fills) |->
             Paint(node.fills[index].type, node.fills[index].visible,
                   HasBinding(node.boundVariables.fills, index),
                   node.fills[index].color)]
    ELSE node.fills

\* checkNodeForRawValues: the raw values of one node, by category
RawFills(node) == Len(SelectSeq(FillsOf(node), IsRawFill))

NodeThrows(node) == \E k \in 1..Len(node.fills) : FillThrows(FillsOf(node)[k])

RECURSIVE SumRawFills(_, _)
SumRawFills(nodes, i) ==
    IF i > Len(nodes) THEN 0 ELSE RawFills(nodes[i]) + SumRawFills(nodes, i + 1)

\* the typography values of a node: absent, mixed, a number (fontSize), or
\* a value with its unit (lineHeight, letterSpacing)
Absent == [kind |-> "undefined", value |-> 0, unit |-> ""]
Mixed == [kind |-> "MIXED", value |-> 0, unit |-> ""]
Number(value) == [kind |-> "number", value |-> value, unit |-> ""]
Measure(value, unit) == [kind |-> "object", value |-> value, unit |-> unit]

\* node[prop], undefined when the node does not carry the property
FieldOr(node, prop) == IF prop \in DOMAIN node THEN node[prop] ELSE Absent

\* boundVars[prop] of a node, for a property bound as a whole
BindingOf(node, prop) ==
    IF "boundVariables" \in DOMAIN node /\ prop \in DOMAIN node.boundVariables
    THEN node.boundVariables[prop]
    ELSE NoBinding

\* `${value}` of an integer
RECURSIVE NumberString(_)
NumberString(n) ==
    IF n < 0 THEN <<"-">> \o NumberString(0 - n)
    ELSE IF n < 10 THEN <<<<"0", "1", "2", "3", "4", "5", "6", "7", "8", "9">>[n + 1]>>
    ELSE NumberString(n \div 10) \o NumberString(n % 10)

\* the value string of an unbound typography property
TypographyValue(node, prop) ==
    LET v == FieldOr(node, prop)
    IN  IF prop = "fontSize"
        THEN IF v.kind = "number" THEN NumberString(v.value) \o <<"p", "x">> ELSE <<"m", "i", "x", "e", "d">>
        ELSE IF v.kind = "object"
        THEN NumberString(v.value) \o (IF v.unit = "PERCENT" THEN <<"%">> ELSE <<"p", "x">>)
        ELSE IF prop = "lineHeight" THEN <<"a", "u", "t", "o">> ELSE <<"0">>

\* (mutation) a zero percentage is not taken for a default
IsRawTypographyPercent(node, prop) ==
    /\ BindingOf(node, prop) = NoBinding
    /\ TypographyValue(node, prop) \notin {<<"a", "u", "t", "o">>, <<"0">>, <<"0", "p", "x">>}

IsRawTypography(node, prop) ==
    /\ BindingOf(node, prop) = NoBinding
    /\ TypographyValue(node, prop) \notin {<<"a", "u", "t", "o">>, <<"0">>, <<"0", "p", "x">>, <<"0", "%">>}

\* the raw typography values of one node: those of a TEXT node only
RawTypography(node) ==
    IF "type" \in DOMAIN node /\ node.type = "TEXT"
    THEN Cardinality({prop \in {"fontSize", "lineHeight", "letterSpacing"} :
                         IsRawTypography(node, prop)})
    ELSE 0

RECURSIVE SumRawTypography(_, _)
SumRawTypography(nodes, i) ==
    IF i > Len(nodes) THEN 0
    ELSE RawTypography(nodes[i]) + SumRawTypography(nodes, i + 1)

ComponentResult(componentNode, allNodes) ==
    [threw         |-> FALSE,
     componentName |-> componentNode.name,
     totalNodes    |-> Len(allNodes),
     rawValueCounts |->
        [fill |-> SumRawFills(allNodes, 1), stroke |-> 0, effect |-> 0,
         spacing |-> 0, cornerRadius |-> 0,
         typography |-> SumRawTypography(allNodes, 1)],
     isFullyBound  |-> \A k \in 1..Len(allNodes) :
                          RawFills(allNodes[k]) + RawTypography(allNodes[k]) = 0]

ComponentChecked(componentNode, allNodes) ==
    IF \E k \in 1..Len(allNodes) : NodeThrows(allNodes[k])
    THEN [threw |-> TRUE]
    ELSE ComponentResult(componentNode, allNodes)

\* a node that is absent from the data
NoNode == [undefined |-> TRUE]

\* a component without its node makes collectAllNodes throw
validateComponentBindings(componentNode) ==
    IF componentNode = NoNode THEN [threw |-> TRUE]
    ELSE ComponentChecked(componentNode, collectAllNodes(componentNode))

TotalRawValues(counts) ==
    counts.fill + counts.stroke + counts.effect + counts.spacing
        + counts.cornerRadius + counts.typography

\* results.push, componentsWithIssues.push
PushComponent(acc, component, result) ==
    IF result.threw THEN [acc EXCEPT !.threw = TRUE]
    ELSE [acc EXCEPT
            !.results = Append(@, [f \in DOMAIN result \ {"threw"} |-> result[f]]),
            !.componentsWithIssues =
                IF result.isFullyBound THEN @
                ELSE Append(@, [name     |-> result.componentName,
                                pageName |-> component.pageName,
                                counts   |-> result.rawValueCounts,
                                totalRawValues |-> TotalRawValues(result.rawValueCounts)])]

\* a progress message every ten components and none for the last one
ScanProgressEveryTen(i, n) ==
    IF i % 10 = 0 THEN <<[message |-> "Scanning", validated |-> i + 1, of |-> n]>>
    ELSE <<>>

\* the progress message of component i (counted from 0), if it has one
ScanProgress(i, n) ==
    IF i % 10 = 0 \/ i = n - 1 THEN <<[message |-> "Scanning", validated |-> i + 1, of |-> n]>>
    ELSE <<>>

\* the first loop, from component i (counted from 1) on
RECURSIVE ComponentLoop(_, _, _)
ComponentLoop(comps, i, acc) ==
    IF i > Len(comps) THEN acc
    ELSE IF acc.threw THEN acc
    ELSE ComponentLoop(comps, i + 1,
             PushComponent([acc EXCEPT !.progress = @ \o ScanProgress(i - 1, Len(comps))],
                           comps[i], validateComponentBindings(comps[i].node)))

ComponentCheck(name, status, pageName, count) ==
    [check      |-> [template |-> "component", displayName |-> name,
                     category |-> <<>>, source |-> <<>>],
     status     |-> status,
     suggestion |-> [listed |-> <<>>, count |-> count],
     pageName   |-> pageName]

\* results.find(r => r.componentName === name): the index, 0 when none
FindResult(results, name) ==
    IF \E k \in 1..Len(results) : results[k].componentName = name
    THEN Min({k \in 1..Len(results) : results[k].componentName = name})
    ELSE 0

FindIssue(issues, name) ==
    IF \E k \in 1..Len(issues) : issues[k].name = name
    THEN Min({k \in 1..Len(issues) : issues[k].name = name})
    ELSE 0

\* the check of one component, from the result and the issue found by name
CheckOfComponent(component, results, issues) ==
    IF FindResult(results, component.node.name) = 0 THEN <<>>
    ELSE IF results[FindResult(results, component.node.name)].isFullyBound
    THEN <<ComponentCheck(component.node.name, "pass", component.pageName, 0)>>
    ELSE IF FindIssue(issues, component.node.name) = 0 THEN <<>>
    ELSE <<ComponentCheck(component.node.name, "fail", component.pageName,
               issues[FindIssue(issues, component.node.name)].totalRawValues)>>

RECURSIVE ComponentChecks(_, _, _, _)
ComponentChecks(comps, results, issues, i) ==
    IF i > Len(comps) THEN <<>>
    ELSE CheckOfComponent(comps[i], results, issues)
         \o ComponentChecks(comps, results, issues, i + 1)

\* the final progress update and the second loop
ComponentsChecked(comps, done) ==
    IF done.threw THEN done
    ELSE [done EXCEPT
            !.progress = Append(@, [message |-> "Completed", validated |-> Len(comps),
                                    of |-> Len(comps)]),
            !.auditChecks =
                ComponentChecks(comps, done.results, done.componentsWithIssues, 1)]

\* the try block
ComponentBindingsTry(comps) ==
    IF Len(comps) = 0
    THEN [threw |-> FALSE, results |-> <<>>, componentsWithIssues |-> <<>>,
          auditChecks |-> <<>>, progress |-> <<>>]
    ELSE ComponentsChecked(comps, ComponentLoop(comps, 1,
             [threw |-> FALSE, results |-> <<>>, componentsWithIssues |-> <<>>,
              auditChecks |-> <<>>,
              progress |-> <<[message |-> "being scanned", validated |-> 0,
                              of |-> Len(comps)]>>]))

\* the catch block: the results gathered so far and one warning
ComponentBindingsCatch(tried) ==
    [results     |-> tried.results,
     auditChecks |-> <<PlainCheck("Component variable bindings", "warning", <<>>, 0)>>,
     progress    |-> tried.progress]

ComponentBindingsReturn(tried) ==
    IF tried.threw THEN ComponentBindingsCatch(tried)
    ELSE [results |-> tried.results, auditChecks |-> tried.auditChecks,
          progress |-> tried.progress]

\* the validator with its check list kept in a module-level array that a
\* later run goes on appending to
ComponentBindingsKept(comps) ==
    LET fresh == ComponentBindingsReturn(ComponentBindingsTry(comps))
        kept  == IF audits = <<>> THEN <<>>
                 ELSE audits[Len(audits)].posted.componentBindings
    IN  [fresh EXCEPT !.auditChecks = kept \o @]

validateAllComponentBindings(comps) ==
    ComponentBindingsReturn(ComponentBindingsTry(comps))

(***************************************************************************)
(* The system audit on files with malformed data: the four validators in   *)
(* the order of handleSystemAudit, on variables, text styles and           *)
(* components some of which lack a name, a node or a colour.               *)
(***************************************************************************)
MaxItems == 3

Unbound == [p \in Range(TYPOGRAPHY_PROPERTIES) |-> 0]

\* a variable of the Theme collection or of a collection no requirement
\* matches, identified by its position in the file
FetchedVariables ==
    { [name |-> <<"f", "o", "n", "t", "-", "f", "a", "m", "i", "l", "y", "/", "d", "i", "s", "p", "l", "a", "y">>, variableCollectionId |-> ThemeTokens.id],
      [name |-> <<"f", "o", "n", "t", "-", "s", "i", "z", "e", "/", "d", "i", "s", "p", "l", "a", "y", "/", "x", "l">>, variableCollectionId |-> ThemeTokens.id],
      [name |-> UNDEFINED, variableCollectionId |-> ThemeTokens.id],
      [name |-> UNDEFINED, variableCollectionId |-> 9] }

FetchedTextStyles ==
    { TextStyle(<<"d", "i", "s", "p", "l", "a", "y", "/", "x", "l">>, [Unbound EXCEPT !["fontFamily"] = 1, !["fontSize"] = 2]),
      TextStyle(<<"d", "i", "s", "p", "l", "a", "y", "/", "x", "l">>, Unbound),
      TextStyle(<<"b", "o", "d", "y">>, Unbound),
      TextStyle(UNDEFINED, Unbound) }

FetchedComponents ==
    { Component(Node("Button", <<Fill(FALSE, "opaque")>>, <<>>), "Page 1"),
      Component(Node("Card", <<Fill(TRUE, "opaque")>>,
                     <<Node("Label", <<Fill(FALSE, "transparent")>>, <<>>)>>), "Page 1"),
      Component(Node("Badge", <<>>,
                     <<Node("Dot", <<Fill(FALSE, "undefined")>>, <<>>)>>), "Page 2"),
      Component(NoNode, "Page 2") }

ItemCount == Len(variables) + Len(textStyles) + Len(components)

InitErrors ==
    /\ collections = <<ThemeTokens>>
    /\ variables = <<>>
    /\ requirements = DEFAULT_COLLECTION_REQUIREMENTS
    /\ collectionValidation = NONE
    /\ extracted = <<>>
    /\ ScoreIdle
    /\ StyleIdle

FetchVariable ==
    /\ collectionValidation = NONE
    /\ ItemCount < MaxItems
    /\ \E v \in FetchedVariables :
          variables' = Append(variables,
              Variable(Len(variables) + 1, v.name, v.variableCollectionId, <<Literal>>))
    /\ UNCHANGED <<collections, requirements, collectionValidation, extracted>>
    /\ UNCHANGED <<scoreVars, styleVars>>

FetchTextStyle ==
    /\ collectionValidation = NONE
    /\ ItemCount < MaxItems
    /\ \E style \in FetchedTextStyles : textStyles' = Append(textStyles, style)
    /\ UNCHANGED <<components, textStyleSync, textStyleBindings, componentBindings>>
    /\ UNCHANGED <<scoreVars, collVars, docVars>>

FetchComponent ==
    /\ collectionValidation = NONE
    /\ ItemCount < MaxItems
    /\ \E component \in FetchedComponents : components' = Append(components, component)
    /\ UNCHANGED <<textStyles, textStyleSync, textStyleBindings, componentBindings>>
    /\ UNCHANGED <<scoreVars, collVars, docVars>>

\* handleSystemAudit, one validator at a time
AuditCollections ==
    /\ RunCollectionValidation
    /\ UNCHANGED <<scoreVars, styleVars>>

AuditTextStyleSync ==
    /\ collectionValidation # NONE
    /\ textStyleSync = NONE
    /\ textStyleSync' =
           validateTextStylesAgainstVariables(collections, variables, textStyles)
    /\ UNCHANGED <<textStyles, components, textStyleBindings, componentBindings>>
    /\ UNCHANGED <<scoreVars, collVars, docVars>>

AuditTextStyleBindings ==
    /\ textStyleSync # NONE
    /\ textStyleBindings = NONE
    /\ textStyleBindings' = validateTextStyleBindings(textStyles, variables)
    /\ UNCHANGED <<textStyles, components, textStyleSync, componentBindings>>
    /\ UNCHANGED <<scoreVars, collVars, docVars>>

AuditComponents ==
    /\ textStyleBindings # NONE
    /\ componentBindings = NONE
    /\ componentBindings' = validateAllComponentBindings(components)
    /\ UNCHANGED <<textStyles, components, textStyleSync, textStyleBindings>>
    /\ UNCHANGED <<scoreVars, collVars, docVars>>

NextErrors ==
    \/ FetchVariable \/ FetchTextStyle \/ FetchComponent
    \/ AuditCollections \/ AuditTextStyleSync \/ AuditTextStyleBindings
    \/ AuditComponents

SpecErrors == InitErrors /\ [][NextErrors]_vars

\* the one check a validator returns in place of its checks
IsSynthetic(auditChecks, check, status) ==
    /\ Len(auditChecks) = 1
    /\ auditChecks[1].check.template = check
    /\ auditChecks[1].status = status

\* none of the checks computed before the error is returned
Dropped(tried, auditChecks) ==
    \A k \in 1..Len(tried.auditChecks) : tried.auditChecks[k] \notin Range(auditChecks)

CollectionTried == CollectionTry(collections, variables, requirements)
SyncTried == TextStyleSyncTry(collections, variables, textStyles)
BindingsTried == TextStyleBindingsTry(textStyles, variables)
ComponentsTried == ComponentBindingsTry(components)

\* C3: each of the four validators returns to its caller whatever its input;
\* when an error is raised inside it, the check list it returns is one
\* synthetic check (fail for the collection, synchronisation and binding
\* validators, warning for the component validator) and none of the checks
\* computed before the error.
C3_OneSyntheticCheckOnError ==
    /\ (collectionValidation # NONE /\ CollectionTried.threw) =>
          /\ IsSynthetic(collectionValidation.auditChecks,
                         "Variable collection structure", "fail")
          /\ Dropped(CollectionTried, collectionValidation.auditChecks)
    /\ (textStyleSync # NONE /\ SyncTried.threw) =>
          /\ IsSynthetic(textStyleSync.auditChecks, "Text style validation", "fail")
          /\ Dropped(SyncTried, textStyleSync.auditChecks)
    /\ (textStyleBindings # NONE /\ BindingsTried.threw) =>
          /\ IsSynthetic(textStyleBindings.auditChecks,
                         "Text style variable bindings", "fail")
          /\ Dropped(BindingsTried, textStyleBindings.auditChecks)
    /\ (componentBindings # NONE /\ ComponentsTried.threw) =>
          /\ IsSynthetic(componentBindings.auditChecks,
                         "Component variable bindings", "warning")
          /\ Dropped(ComponentsTried, componentBindings.auditChecks)

\* all four validators raised an error, the collection validator after it
\* had computed checks, the component validator after a component passed
C3_Witness ==
    /\ componentBindings # NONE
    /\ CollectionTried.threw /\ Len(CollectionTried.auditChecks) > 0
    /\ SyncTried.threw
    /\ BindingsTried.threw
    /\ ComponentsTried.threw /\ Len(ComponentsTried.results) > 0


-----------------------------------------------------------------------------
\* Missing collections in the result of validateCollectionStructure

\* the display names of the requirements no collection of the file matches
Unmatched ==
    SelectSeq([i \in 1..Len(requirements) |-> requirements[i]],
              LAMBDA r : FindCollection(collections, r.namePattern) = 0)

UnmatchedNames == [i \in 1..Len(Unmatched) |-> Unmatched[i].displayName]

\* C11: in the result of validateCollectionStructure, hasAllCollections is
\* true iff every requirement has a matching collection, and
\* missingCollections lists exactly the display names of the requirements
\* for which no collection matched.
C11_MissingCollectionsListed ==
    collectionValidation # NONE =>
        /\ collectionValidation.hasAllCollections <=> (Unmatched = <<>>)
        /\ Range(collectionValidation.missingCollections) = Range(UnmatchedNames)

(***************************************************************************)
(* Text styles against font-family variables: a file with a Theme          *)
(* collection gets variables and text styles, then is audited.             *)
(***************************************************************************)
MaxFontVariables == 2
MaxTextStyles == 2

FontVariableNames ==
    { <<"f", "o", "n", "t", "-", "f", "a", "m", "i", "l", "y", "/", "d", "i", "s", "p", "l", "a", "y">>, <<"f", "o", "n", "t", "-", "f", "a", "m", "i", "l", "y", "/", "b", "r", "a", "n", "d">>, <<"F", "o", "n", "t", "-", "F", "a", "m", "i", "l", "y", "/", " ", "B", "o", "d", "y", " ">>,
      <<"f", "o", "n", "t", "-", "f", "a", "m", "i", "l", "y", "/", "h", "e", "a", "d", "i", "n", "g", "-", "s", "a", "n", "s">>, <<"f", "o", "n", "t", "-", "s", "i", "z", "e", "/", "l", "g">> }

TextStyleNames ==
    { <<"d", "i", "s", "p", "l", "a", "y", "/", "x", "l">>, <<"b", "r", "a", "n", "d", "/", "m", "d">>, <<"H", "e", "a", "d", "i", "n", "g", "/", "s", "m">>, <<"c", "a", "p", "t", "i", "o", "n">>, <<"i", "c", "o", "n", "/", "s", "m">> }

InitTextSync ==
    /\ collections = <<ThemeTokens>>
    /\ variables = <<>>
    /\ requirements = DEFAULT_COLLECTION_REQUIREMENTS
    /\ collectionValidation = NONE
    /\ extracted = <<>>
    /\ ScoreIdle
    /\ StyleIdle

CreateFontVariable ==
    /\ textStyleSync = NONE
    /\ Len(variables) < MaxFontVariables
    /\ \E name \in FontVariableNames :
          variables' = Append(variables,
              Variable(Len(variables) + 1, name, ThemeTokens.id, <<Literal>>))
    /\ UNCHANGED <<collections, requirements, collectionValidation, extracted>>
    /\ UNCHANGED <<scoreVars, styleVars>>

CreateTextStyle ==
    /\ textStyleSync = NONE
    /\ Len(textStyles) < MaxTextStyles
    /\ \E name \in TextStyleNames :
          textStyles' = Append(textStyles, TextStyle(name, Unbound))
    /\ UNCHANGED <<components, textStyleSync, textStyleBindings, componentBindings>>
    /\ UNCHANGED <<scoreVars, collVars, docVars>>

AuditTextSync ==
    /\ textStyleSync = NONE
    /\ textStyleSync' =
           validateTextStylesAgainstVariables(collections, variables, textStyles)
    /\ UNCHANGED <<textStyles, components, textStyleBindings, componentBindings>>
    /\ UNCHANGED <<scoreVars, collVars, docVars>>

NextTextSync == CreateFontVariable \/ CreateTextStyle \/ AuditTextSync

SpecTextSync == InitTextSync /\ [][NextTextSync]_vars

\* the second segments of the font-family variables and the first segments
\* of the text style names, lower-cased and trimmed
FontFamilies ==
    {SplitNormal(variables[i].name)[2] : i \in {j \in 1..Len(variables) :
        /\ Len(SplitNormal(variables[j].name)) > 1
        /\ SplitNormal(variables[j].name)[1] = <<"f", "o", "n", "t", "-", "f", "a", "m", "i", "l", "y">>}}

StyleCategories == {SplitNormal(textStyles[i].name)[1] : i \in 1..Len(textStyles)}

Allowlisted(c) ==
    \E word \in { <<"d", "i", "s", "p", "l", "a", "y">>, <<"h", "e", "a", "d", "i", "n", "g">>, <<"b", "o", "d", "y">>, <<"l", "a", "b", "e", "l">>, <<"c", "a", "p", "t", "i", "o", "n">>,
                  <<"t", "i", "t", "l", "e">>, <<"s", "u", "b", "t", "i", "t", "l", "e">>, <<"o", "v", "e", "r", "l", "i", "n", "e">> } : Includes(c, word)

RelevantCategories == {c \in StyleCategories : Allowlisted(c)}

UnmatchedVariables == Range(textStyleSync.validation.variablesMissingStyles)
UnmatchedCategories == Range(textStyleSync.validation.stylesMissingVariables)

\* C12 as stated: both directions of matching use only the relevant
\* categories, so a font-family variable is unmatched iff no relevant
\* category contains it or is contained in it.
C12_BothDirectionsRelevantOnly ==
    textStyleSync # NONE =>
        /\ UnmatchedVariables =
              {v \in FontFamilies : ~\E c \in RelevantCategories : PartialMatch(c, v)}
        /\ UnmatchedCategories =
              {c \in RelevantCategories : ~\E v \in FontFamilies : PartialMatch(c, v)}

\* C12: a font-family variable is reported unmatched iff no text-style
\* category at all, allowlisted or not, contains it or is contained in it;
\* a category is reported unmatched iff it is allowlisted and no
\* font-family variable contains it or is contained in it.
C12_RelevantOnlyForCategories ==
    textStyleSync # NONE =>
        /\ UnmatchedVariables =
              {v \in FontFamilies : ~\E c \in StyleCategories : PartialMatch(c, v)}
        /\ UnmatchedCategories =
              {c \in RelevantCategories : ~\E v \in FontFamilies : PartialMatch(c, v)}

\* a variable matched by a category outside the allowlist, next to an
\* unmatched allowlisted category and an unflagged category outside it
C12_Witness ==
    /\ textStyleSync # NONE
    /\ <<"b", "r", "a", "n", "d">> \in FontFamilies \ UnmatchedVariables
    /\ <<"b", "r", "a", "n", "d">> \in StyleCategories \ RelevantCategories
    /\ <<"h", "e", "a", "d", "i", "n", "g">> \in UnmatchedCategories

\* the checks of the synchronization validator with a title and a status
SyncChecksOf(check, status) ==
    SelectSeq(textStyleSync.auditChecks, LAMBDA c :
        c.check.template = check /\ c.status = status)

SyncPass == SyncChecksOf("Text styles & font-family sync", "pass")
SyncFailVariables == SyncChecksOf("Text styles for font-family variables", "fail")
SyncFailCategories == SyncChecksOf("Font-family variables for text styles", "fail")

BothExist == FontFamilies # {} /\ textStyles # <<>>

\* C13: when both font-family variables and text styles exist, the pass check
\* is emitted iff no font-family variable and no text-style category is
\* unmatched, one fail check is emitted for each side that has an unmatched
\* item, and the pass check never comes with a fail check.
C13_PassIffNothingUnmatched ==
    (textStyleSync # NONE /\ BothExist) =>
        /\ Len(SyncPass) = (IF UnmatchedVariables = {} /\ UnmatchedCategories = {}
                            THEN 1 ELSE 0)
        /\ Len(SyncFailVariables) = (IF UnmatchedVariables # {} THEN 1 ELSE 0)
        /\ Len(SyncFailCategories) = (IF UnmatchedCategories # {} THEN 1 ELSE 0)
        /\ Len(SyncPass) > 0 => CountStatus(textStyleSync.auditChecks, "fail") = 0
        /\ Len(textStyleSync.auditChecks)
              = Len(SyncPass) + Len(SyncFailVariables) + Len(SyncFailCategories)

\* both sides have an unmatched item and both fail checks are emitted
C13_Witness ==
    /\ textStyleSync # NONE
    /\ BothExist
    /\ UnmatchedVariables # {}
    /\ UnmatchedCategories # {}
    /\ Len(SyncFailVariables) = 1
    /\ Len(SyncFailCategories) = 1
    /\ SyncPass = <<>>

NoFontFamilies == FontFamilies = {}
NoTextStyles == textStyles = <<>>

\* C14 as stated: in each degenerate case, the one without variables and
\* styles included, a warning check is reported and no fail check.
C14_DegenerateCasesWarn ==
    (textStyleSync # NONE /\ (NoFontFamilies \/ NoTextStyles)) =>
        /\ CountStatus(textStyleSync.auditChecks, "warning") > 0
        /\ CountStatus(textStyleSync.auditChecks, "fail") = 0

\* C14: with data on exactly one side the validator reports one warning
\* check and nothing else; with data on neither side it reports no check.
C14_OneSidedCasesWarn ==
    textStyleSync # NONE =>
        /\ (NoFontFamilies /\ NoTextStyles) => textStyleSync.auditChecks = <<>>
        /\ (NoFontFamilies /\ ~NoTextStyles) =>
              /\ Len(textStyleSync.auditChecks) = 1
              /\ Len(SyncChecksOf("Font-family variables", "warning")) = 1
        /\ (~NoFontFamilies /\ NoTextStyles) =>
              /\ Len(textStyleSync.auditChecks) = 1
              /\ Len(SyncChecksOf("Text styles", "warning")) = 1

\* a file with text styles, and variables none of which is a font family
C14_Witness ==
    /\ textStyleSync # NONE
    /\ NoFontFamilies
    /\ variables # <<>>
    /\ Len(textStyles) >= 2
    /\ Len(SyncChecksOf("Font-family variables", "warning")) = 1

(***************************************************************************)
(* The bindings of one text style: a file with five typography variables   *)
(* and one text style, each of whose typography properties is unbound (0), *)
(* bound to one of the variables, or bound to an id the file does not hold. *)
(***************************************************************************)
TypographyVariables ==
    << Variable(1, <<"F", "o", "n", "t", "-", "F", "a", "m", "i", "l", "y", "/", "D", "i", "s", "p", "l", "a", "y", "-", "B", "o", "l", "d">>, ThemeTokens.id, <<Literal>>),
       Variable(2, <<"f", "o", "n", "t", "-", "s", "i", "z", "e", "/", "x", "l", "g">>, ThemeTokens.id, <<Literal>>),
       Variable(3, <<"l", "e", "t", "t", "e", "r", "-", "s", "p", "a", "c", "i", "n", "g", "/", "l", "g", "/", "t", "i", "g", "h", "t">>, ThemeTokens.id, <<Literal>>),
       Variable(4, <<"l", "i", "n", "e", "-", "h", "e", "i", "g", "h", "t", "/", "d", "i", "s", "p", "l", "a", "y", "/", "l", "g">>, ThemeTokens.id, <<Literal>>),
       Variable(5, <<"f", "o", "n", "t", "-", "s", "i", "z", "e", "/", "s", "m">>, ThemeTokens.id, <<Literal>>) >>

UnknownId == Len(TypographyVariables) + 1

BoundStyleNames ==
    { <<"d", "i", "s", "p", "l", "a", "y", "/", "l", "g", "/", "b", "o", "l", "d">>, <<"D", "i", "s", "p", "l", "a", "y", "/", " ", "L", "G">>, <<"d", "i", "s", "p", "l", "a", "y">>, <<"b", "o", "d", "y", "/", "s", "m", "/", "l", "g">> }

InitStyleBinding ==
    /\ collections = <<ThemeTokens>>
    /\ variables = TypographyVariables
    /\ requirements = DEFAULT_COLLECTION_REQUIREMENTS
    /\ collectionValidation = NONE
    /\ extracted = <<>>
    /\ ScoreIdle
    /\ \E name \in BoundStyleNames :
       \E boundVariables \in [Range(TYPOGRAPHY_PROPERTIES) -> 0..UnknownId] :
          textStyles = <<TextStyle(name, boundVariables)>>
    /\ components = <<>>
    /\ textStyleSync = NONE
    /\ textStyleBindings = NONE
    /\ componentBindings = NONE
    /\ DocIdle

AuditStyleBinding ==
    /\ textStyleBindings = NONE
    /\ textStyleBindings' = validateTextStyleBindings(textStyles, variables)
    /\ UNCHANGED <<textStyles, components, textStyleSync, componentBindings>>
    /\ UNCHANGED <<scoreVars, collVars, docVars>>

NextStyleBinding == AuditStyleBinding

SpecStyleBinding == InitStyleBinding /\ [][NextStyleBinding]_vars

\* the segments of a style name as written, and the styles that are evaluated
Segments(style) == Split(style.name)
Evaluated == SelectSeq(textStyles, LAMBDA style : Len(Segments(style)) >= 2)

PropertiesIn(list) == Range(list)
BoundIn(result) == {b.property : b \in Range(result.boundProperties)}
IncorrectIn(result) ==
    {b.property : b \in {x \in Range(result.boundProperties) : ~x.isCorrectBinding}}

\* C15: every text style with at least two segments has a result in which
\* each of the four typography properties is in exactly one of
\* unboundProperties and boundProperties, bound iff the style carries a
\* binding with a non-empty id for it (known to the file or not);
\* isFullyBound iff nothing is unbound, hasCorrectBindings iff every bound
\* property passes its name test; with only letterSpacing unbound and the
\* other three correct there is one unbound property and no incorrect one.
C15_BoundOrUnbound ==
    textStyleBindings # NONE =>
        /\ Len(textStyleBindings.results) = Len(Evaluated)
        /\ \A k \in 1..Len(Evaluated) :
              LET result == textStyleBindings.results[k]
                  style  == Evaluated[k]
              IN  /\ result.styleName = style.name
                  /\ Len(result.boundProperties) + Len(result.unboundProperties)
                        = Len(TYPOGRAPHY_PROPERTIES)
                  /\ \A p \in Range(TYPOGRAPHY_PROPERTIES) :
                        /\ (p \in BoundIn(result)) # (p \in Range(result.unboundProperties))
                        /\ (p \in BoundIn(result)) <=> (style.boundVariables[p] # 0)
                  /\ result.isFullyBound <=> (result.unboundProperties = <<>>)
                  /\ result.hasCorrectBindings <=> (IncorrectIn(result) = {})
                  /\ (/\ style.boundVariables["letterSpacing"] = 0
                      /\ \A p \in {"fontFamily", "fontSize", "lineHeight"} :
                            p \in BoundIn(result) \ IncorrectIn(result))
                        => /\ result.unboundProperties = <<"letterSpacing">>
                           /\ IncorrectIn(result) = {}
                           /\ result.hasCorrectBindings
                           /\ ~result.isFullyBound

\* only letterSpacing is unbound, the other three are bound and correct
C15_Witness ==
    /\ textStyleBindings # NONE
    /\ Len(textStyleBindings.results) = 1
    /\ textStyleBindings.results[1].unboundProperties = <<"letterSpacing">>
    /\ Len(textStyleBindings.results[1].boundProperties) = 3
    /\ textStyleBindings.results[1].hasCorrectBindings
    /\ textStyles[1].boundVariables["fontFamily"] # UnknownId

\* the lower-cased name of the variable a property is bound to
BoundName(id) ==
    IF \E i \in 1..Len(variables) : variables[i].id = id
    THEN ToLowerCase(variables[CHOOSE i \in 1..Len(variables) : variables[i].id = id].name)
    ELSE <<"u", "n", "k", "n", "o", "w", "n">>

\* the size segment of a style name: the second of three or more, else the last
SizeSegment(segments) ==
    IF Len(segments) >= 3 THEN segments[2] ELSE segments[Len(segments)]

\* the name test of a property, with the segments of the style name taken
\* in the given form
NameTest(p, name, segments, form(_)) ==
    IF p = "fontFamily"
    THEN Includes(name, <<"f", "o", "n", "t", "-", "f", "a", "m", "i", "l", "y">>) /\ Includes(name, form(segments[1]))
    ELSE /\ Includes(name, CASE p = "fontSize" -> <<"f", "o", "n", "t", "-", "s", "i", "z", "e">>
                             [] p = "letterSpacing" -> <<"l", "e", "t", "t", "e", "r", "-", "s", "p", "a", "c", "i", "n", "g">>
                             [] p = "lineHeight" -> <<"l", "i", "n", "e", "-", "h", "e", "i", "g", "h", "t">>)
         /\ \/ EndsWith(name, form(SizeSegment(segments)))
            \/ Includes(name, <<"/">> \o form(SizeSegment(segments)))

CorrectnessFollows(form(_)) ==
    textStyleBindings # NONE =>
        \A k \in 1..Len(Evaluated) :
            \A b \in Range(textStyleBindings.results[k].boundProperties) :
                b.isCorrectBinding <=>
                    NameTest(b.property,
                             BoundName(Evaluated[k].boundVariables[b.property]),
                             Segments(Evaluated[k]), form)

\* C17 as stated: a bound property is a correct binding iff the lower-cased
\* name of its variable contains the property token and ends with the
\* style's size or contains '/' followed by it (for fontFamily: contains
\* 'font-family' and the style's category), size and category being
\* segments of the style name as written.
C17_CorrectIffNameTest == CorrectnessFollows(Verbatim)

\* C17: the same, with the size and the category being the segments of the
\* style name lower-cased and trimmed of surrounding white space.
C17_CorrectIffNormalNameTest == CorrectnessFollows(Normal)

\* a style of three segments whose font size is correct by its second
\* segment and not by its last, and whose line height is bound incorrectly
C17_Witness ==
    /\ textStyleBindings # NONE
    /\ Len(textStyleBindings.results) = 1
    /\ \E b \in Range(textStyleBindings.results[1].boundProperties) :
          /\ b.property = "fontSize"
          /\ b.isCorrectBinding
          /\ b.variableName = <<"f", "o", "n", "t", "-", "s", "i", "z", "e", "/", "s", "m">>
          /\ textStyles[1].name = <<"b", "o", "d", "y", "/", "s", "m", "/", "l", "g">>
    /\ \E b \in Range(textStyleBindings.results[1].boundProperties) :
          b.property = "lineHeight" /\ ~b.isCorrectBinding

(***************************************************************************)
(* The bindings of the text styles of a file: the file holds the           *)
(* typography variables and gets text styles, then is audited.             *)
(***************************************************************************)
MaxBoundStyles == 2

\* family and size are bound together, so are letter spacing and line
\* height; the font size is bound to either of the font-size variables
StyleBindingChoices ==
    {b \in [Range(TYPOGRAPHY_PROPERTIES) -> 0..UnknownId] :
        /\ b["fontFamily"] \in {0, 1}
        /\ b["fontSize"] \in {0, 2, 5}
        /\ b["letterSpacing"] \in {0, 3}
        /\ b["lineHeight"] \in {0, 4}
        /\ (b["fontFamily"] = 0) <=> (b["fontSize"] = 0)
        /\ (b["letterSpacing"] = 0) <=> (b["lineHeight"] = 0)}

InitTextBindings ==
    /\ collections = <<ThemeTokens>>
    /\ variables = TypographyVariables
    /\ requirements = DEFAULT_COLLECTION_REQUIREMENTS
    /\ collectionValidation = NONE
    /\ extracted = <<>>
    /\ ScoreIdle
    /\ StyleIdle

CreateBoundStyle ==
    /\ textStyleBindings = NONE
    /\ Len(textStyles) < MaxBoundStyles
    /\ \E name \in BoundStyleNames, boundVariables \in StyleBindingChoices :
          textStyles' = Append(textStyles, TextStyle(name, boundVariables))
    /\ UNCHANGED <<components, textStyleSync, textStyleBindings, componentBindings>>
    /\ UNCHANGED <<scoreVars, collVars, docVars>>

AuditTextBindings ==
    /\ textStyleBindings = NONE
    /\ textStyleBindings' = validateTextStyleBindings(textStyles, variables)
    /\ UNCHANGED <<textStyles, components, textStyleSync, componentBindings>>
    /\ UNCHANGED <<scoreVars, collVars, docVars>>

NextTextBindings == CreateBoundStyle \/ AuditTextBindings

SpecTextBindings == InitTextBindings /\ [][NextTextBindings]_vars

\* the evaluated styles with an unbound property, and those with a bound
\* property that fails its name test
UnboundBucket ==
    SelectSeq(Evaluated, LAMBDA style :
        \E p \in Range(TYPOGRAPHY_PROPERTIES) : style.boundVariables[p] = 0)

NamingBucket ==
    SelectSeq(Evaluated, LAMBDA style :
        \E p \in Range(TYPOGRAPHY_PROPERTIES) :
            /\ style.boundVariables[p] # 0
            /\ ~NameTest(p, BoundName(style.boundVariables[p]), Segments(style), Normal))

BindingChecksOf(check, status) ==
    SelectSeq(textStyleBindings.auditChecks, LAMBDA c :
        c.check.template = check /\ c.status = status)

StyleNamesOf(styles) == [k \in 1..Len(styles) |-> styles[k].name]

\* C16: the validator emits one fail check for unbound properties iff some
\* evaluated style has one, one fail check for incorrectly named bindings
\* iff some evaluated style has one, each listing the styles of its bucket,
\* the pass check iff a style was evaluated and both buckets are empty, and
\* no other check; styles with fewer than two segments change nothing.
C16_OneCheckPerBucket ==
    textStyleBindings # NONE =>
        /\ Len(BindingChecksOf("Text style variable bindings", "fail"))
              = (IF UnboundBucket # <<>> THEN 1 ELSE 0)
        /\ Len(BindingChecksOf("Text style variable naming", "fail"))
              = (IF NamingBucket # <<>> THEN 1 ELSE 0)
        /\ Len(BindingChecksOf("Text style variable bindings", "pass"))
              = (IF Evaluated # <<>> /\ UnboundBucket = <<>> /\ NamingBucket = <<>>
                 THEN 1 ELSE 0)
        /\ Len(textStyleBindings.auditChecks)
              = Len(BindingChecksOf("Text style variable bindings", "fail"))
                + Len(BindingChecksOf("Text style variable naming", "fail"))
                + Len(BindingChecksOf("Text style variable bindings", "pass"))
        /\ \A c \in Range(BindingChecksOf("Text style variable bindings", "fail")) :
              c.suggestion.listed = StyleNamesOf(UnboundBucket)
        /\ \A c \in Range(BindingChecksOf("Text style variable naming", "fail")) :
              c.suggestion.listed = StyleNamesOf(NamingBucket)
        /\ textStyleBindings.auditChecks
              = validateTextStyleBindings(Evaluated, variables).auditChecks

\* a skipped style without bindings next to a fully and correctly bound
\* one: the pass check is emitted
C16_Witness ==
    /\ textStyleBindings # NONE
    /\ Len(textStyles) = 2
    /\ Len(Evaluated) = 1
    /\ \E k \in 1..2 : /\ Len(Segments(textStyles[k])) < 2
                       /\ textStyles[k].boundVariables["fontSize"] = 0
    /\ Len(BindingChecksOf("Text style variable bindings", "pass")) = 1

\* both buckets are filled and both fail checks are emitted
C16_WitnessBothBuckets ==
    /\ textStyleBindings # NONE
    /\ UnboundBucket # <<>>
    /\ NamingBucket # <<>>
    /\ Len(textStyleBindings.auditChecks) = 2

(***************************************************************************)
(* The tree of one component: layers are added below any node of the tree  *)
(* and paints to the fills of any node, then the component is validated.   *)
(***************************************************************************)
MaxNodes == 3
MaxPaints == 2

\* the positions of the nodes of a tree, each the child indices from the root
RECURSIVE Paths(_)
Paths(node) ==
    {<<>>} \cup UNION {{<<i>> \o path : path \in Paths(node.children[i])} :
                       i \in 1..Len(node.children)}

RECURSIVE NodeAt(_, _)
NodeAt(node, path) ==
    IF path = <<>> THEN node ELSE NodeAt(node.children[Head(path)], Tail(path))

\* appendChild at a position of the tree
RECURSIVE AppendChildAt(_, _, _)
AppendChildAt(node, path, child) ==
    IF path = <<>> THEN [node EXCEPT !.children = Append(@, child)]
    ELSE [node EXCEPT !.children[Head(path)] = AppendChildAt(@, Tail(path), child)]

\* a paint is appended to the fills of the node at a position of the tree
RECURSIVE AppendFillAt(_, _, _)
AppendFillAt(node, path, paint) ==
    IF path = <<>> THEN [node EXCEPT !.fills = Append(@, paint)]
    ELSE [node EXCEPT !.children[Head(path)] = AppendFillAt(@, Tail(path), paint)]

Paints ==
    { Paint("SOLID", TRUE, FALSE, "opaque"),
      Paint("SOLID", TRUE, TRUE, "opaque"),
      Paint("SOLID", TRUE, FALSE, "transparent"),
      Paint("SOLID", FALSE, FALSE, "opaque"),
      Paint("GRADIENT_LINEAR", TRUE, FALSE, "undefined") }

TreeRoot == components[1].node

PaintCount ==
    LET paths == Paths(TreeRoot)
        RECURSIVE Total(_)
        Total(ps) == IF ps = {} THEN 0
                     ELSE LET path == CHOOSE x \in ps : TRUE
                          IN  Len(NodeAt(TreeRoot, path).fills) + Total(ps \ {path})
    IN  Total(paths)

InitComponentTree ==
    /\ CollIdle
    /\ ScoreIdle
    /\ textStyles = <<>>
    /\ components = <<Component(Node("Button", <<>>, <<>>), "Page 1")>>
    /\ textStyleSync = NONE
    /\ textStyleBindings = NONE
    /\ componentBindings = NONE
    /\ DocIdle

AppendLayer ==
    /\ componentBindings = NONE
    /\ Cardinality(Paths(TreeRoot)) < MaxNodes
    /\ \E path \in Paths(TreeRoot) :
          components' = <<Component(AppendChildAt(TreeRoot, path, Node("Layer", <<>>, <<>>)),
                                    components[1].pageName)>>
    /\ UNCHANGED <<textStyles, textStyleSync, textStyleBindings, componentBindings>>
    /\ UNCHANGED <<scoreVars, collVars, docVars>>

AppendFill ==
    /\ componentBindings = NONE
    /\ PaintCount < MaxPaints
    /\ \E path \in Paths(TreeRoot), paint \in Paints :
          components' = <<Component(AppendFillAt(TreeRoot, path, paint),
                                    components[1].pageName)>>
    /\ UNCHANGED <<textStyles, textStyleSync, textStyleBindings, componentBindings>>
    /\ UNCHANGED <<scoreVars, collVars, docVars>>

AuditComponentTree ==
    /\ componentBindings = NONE
    /\ componentBindings' = validateAllComponentBindings(components)
    /\ UNCHANGED <<textStyles, components, textStyleSync, textStyleBindings>>
    /\ UNCHANGED <<scoreVars, collVars, docVars>>

NextComponentTree == AppendLayer \/ AppendFill \/ AuditComponentTree

SpecComponentTree == InitComponentTree /\ [][NextComponentTree]_vars

\* the paints of a tree, as (position, index) pairs, that fit a description
FillsWhere(root, Fits(_)) ==
    UNION {{<<path, k>> : k \in {i \in 1..Len(NodeAt(root, path).fills) :
                                    Fits(NodeAt(root, path).fills[i])}} :
           path \in Paths(root)}

UnboundSolid(paint) ==
    paint.type = "SOLID" /\ ~paint.bound /\ paint.color # "transparent"

VisibleUnboundSolid(paint) == UnboundSolid(paint) /\ paint.visible

ScannedTree(Fits(_)) ==
    componentBindings # NONE =>
        /\ Len(componentBindings.results) = 1
        /\ componentBindings.results[1].totalNodes = Cardinality(Paths(TreeRoot))
        /\ componentBindings.results[1].rawValueCounts.fill
              = Cardinality(FillsWhere(TreeRoot, Fits))

\* C18 as stated: for a tree of N nodes with K solid fills that are unbound
\* and not fully transparent, totalNodes is N and the fill count is K.
C18_FillCountIsUnboundSolid == ScannedTree(UnboundSolid)

\* C18: for a tree of N nodes with K visible solid fills that are unbound
\* and not fully transparent, totalNodes is N and the fill count is K,
\* whatever the depth of the tree and the nodes the fills are on.
C18_FillCountIsVisibleUnboundSolid == ScannedTree(VisibleUnboundSolid)

\* a chain of three nodes with a raw fill on the root and one on the leaf
C18_Witness ==
    /\ componentBindings # NONE
    /\ <<1, 1>> \in Paths(TreeRoot)
    /\ componentBindings.results[1].totalNodes = 3
    /\ componentBindings.results[1].rawValueCounts.fill = 2
    /\ Len(TreeRoot.fills) = 1
    /\ Len(NodeAt(TreeRoot, <<1, 1>>).fills) = 1

(***************************************************************************)
(* The components of a file: components are discovered page by page, then  *)
(* all of them are validated.  Components of different pages, or variants  *)
(* of different sets, may carry the same name.                             *)
(***************************************************************************)
MaxComponents == 3

DiscoveredComponents ==
    { Component(Node("Button", <<Fill(FALSE, "opaque")>>, <<>>), "Page 1"),
      Component(Node("Button", <<Fill(TRUE, "opaque")>>, <<>>), "Page 2"),
      Component(Node("Button", <<Fill(FALSE, "opaque")>>,
                     <<Node("Label", <<Fill(FALSE, "opaque")>>, <<>>)>>), "Page 2"),
      Component(Node("Card", <<>>,
                     <<Node("Label", <<Fill(FALSE, "transparent")>>, <<>>)>>), "Page 1") }

InitComponents ==
    /\ CollIdle
    /\ ScoreIdle
    /\ StyleIdle

DiscoverComponent ==
    /\ componentBindings = NONE
    /\ Len(components) < MaxComponents
    /\ \E component \in DiscoveredComponents :
          components' = Append(components, component)
    /\ UNCHANGED <<textStyles, textStyleSync, textStyleBindings, componentBindings>>
    /\ UNCHANGED <<scoreVars, collVars, docVars>>

AuditComponentList ==
    /\ componentBindings = NONE
    /\ componentBindings' = validateAllComponentBindings(components)
    /\ UNCHANGED <<textStyles, components, textStyleSync, textStyleBindings>>
    /\ UNCHANGED <<scoreVars, collVars, docVars>>

NextComponents == DiscoverComponent \/ AuditComponentList

SpecComponents == InitComponents /\ [][NextComponents]_vars

\* the raw values in the subtree of a component (fills, in this model)
OwnRawValues(component) == Cardinality(FillsWhere(component.node, VisibleUnboundSolid))

\* C19: validateAllComponentBindings emits exactly one check per component,
\* in input order, with the component's name and its own page name, whose
\* status is pass iff the component's own subtree has no raw value and fail
\* otherwise with the component's own counts, also when names are shared.
C19_OwnCheckPerComponent ==
    componentBindings # NONE =>
        /\ Len(componentBindings.auditChecks) = Len(components)
        /\ \A k \in 1..Len(components) :
              LET check == componentBindings.auditChecks[k]
              IN  /\ check.check.displayName = components[k].node.name
                  /\ check.pageName = components[k].pageName
                  /\ check.status
                        = (IF OwnRawValues(components[k]) = 0 THEN "pass" ELSE "fail")
                  /\ check.suggestion.count = OwnRawValues(components[k])

(***************************************************************************)
(* Component discovery: findComponents of the command line front end and   *)
(* fetchComponents of the plugin walk the node trees of the pages.         *)
(***************************************************************************)
SceneNode(id, type, children) == [id |-> id, type |-> type, children |-> children]

IsComponentType(type) == type = "COMPONENT" \/ type = "COMPONENT_SET"

\* adaptBoundVariables on a binding array: the entries that hold an id, in
\* order, the others dropped
adaptBoundVariables(bindings) == SelectSeq(bindings, LAMBDA b : b # NoBinding)

\* adaptNode: the node with its bindings adapted if it carries any, and its
\* children adapted, in order
RECURSIVE adaptNode(_)
adaptNode(node) ==
    [f \in DOMAIN node |->
        CASE f = "children" ->
                 [k \in 1..Len(node.children) |-> adaptNode(node.children[k])]
          [] f = "boundVariables" ->
                 [g \in DOMAIN node.boundVariables |->
                     IF g \in {"fills", "strokes", "effects"}
                     THEN adaptBoundVariables(node.boundVariables[g])
                     ELSE node.boundVariables[g]]
          [] OTHER -> node[f]]

\* walk of findComponents: the node if it is a component, then its children
RECURSIVE findComponentsWalk(_, _)
RECURSIVE FindInChildren(_, _, _)
FindInChildren(children, pageName, i) ==
    IF i > Len(children) THEN <<>>
    ELSE findComponentsWalk(children[i], pageName)
         \o FindInChildren(children, pageName, i + 1)

findComponentsWalk(node, pageName) ==
    (IF IsComponentType(node.type) THEN <<Component(node, pageName)>> ELSE <<>>)
    \o FindInChildren(node.children, pageName, 1)

RECURSIVE findComponents(_, _)
findComponents(ps, i) ==
    IF i > Len(ps) THEN <<>>
    ELSE FindInChildren(ps[i].children, ps[i].name, 1) \o findComponents(ps, i + 1)

\* walk of fetchComponents: a component is adapted and not descended into
RECURSIVE fetchComponentsWalk(_, _)
RECURSIVE FetchInChildren(_, _, _)
FetchInChildren(children, pageName, i) ==
    IF i > Len(children) THEN <<>>
    ELSE fetchComponentsWalk(children[i], pageName)
         \o FetchInChildren(children, pageName, i + 1)

fetchComponentsWalk(node, pageName) ==
    IF IsComponentType(node.type) THEN <<Component(adaptNode(node), pageName)>>
    ELSE FetchInChildren(node.children, pageName, 1)

RECURSIVE fetchComponents(_, _)
fetchComponents(ps, i) ==
    IF i > Len(ps) THEN <<>>
    ELSE FetchInChildren(ps[i].children, ps[i].name, 1) \o fetchComponents(ps, i + 1)

MaxSceneNodes == 4

\* the node types a node of the given type can hold: the variants of a
\* component set are components, and a component holds no component
ChildTypes(type) ==
    CASE type = "COMPONENT_SET" -> {"COMPONENT"}
      [] type = "COMPONENT"     -> {"FRAME"}
      [] OTHER                  -> {"FRAME", "COMPONENT", "COMPONENT_SET"}

SceneNodeCount ==
    Cardinality(Paths(pages[1])) + Cardinality(Paths(pages[2])) - 2

InitDiscovery ==
    /\ CollIdle
    /\ ScoreIdle
    /\ textStyles = <<>>
    /\ components = <<>>
    /\ textStyleSync = NONE
    /\ textStyleBindings = NONE
    /\ componentBindings = NONE
    /\ pages = <<[name |-> "Page 1", type |-> "PAGE", children |-> <<>>],
                 [name |-> "Page 2", type |-> "PAGE", children |-> <<>>]>>
    /\ discovered = [cli |-> NONE, plugin |-> NONE]
    /\ RunIdle

AppendSceneNode ==
    /\ discovered = [cli |-> NONE, plugin |-> NONE]
    /\ SceneNodeCount < MaxSceneNodes
    /\ \E p \in 1..Len(pages) :
       \E path \in Paths(pages[p]) :
       \E type \in ChildTypes(NodeAt(pages[p], path).type) :
          pages' = [pages EXCEPT ![p] =
                       AppendChildAt(@, path, SceneNode(SceneNodeCount + 1, type, <<>>))]
    /\ UNCHANGED <<discovered, runVars>>
    /\ UNCHANGED <<textStyles, components, textStyleSync, textStyleBindings, componentBindings>>
    /\ UNCHANGED <<scoreVars, collVars>>

FindComponents ==
    /\ discovered.cli = NONE
    /\ discovered' = [discovered EXCEPT !.cli = [components |-> findComponents(pages, 1)]]
    /\ UNCHANGED <<pages, runVars>>
    /\ UNCHANGED <<textStyles, components, textStyleSync, textStyleBindings, componentBindings>>
    /\ UNCHANGED <<scoreVars, collVars>>

FetchComponents ==
    /\ discovered.plugin = NONE
    /\ discovered' = [discovered EXCEPT !.plugin = [components |-> fetchComponents(pages, 1)]]
    /\ UNCHANGED <<pages, runVars>>
    /\ UNCHANGED <<textStyles, components, textStyleSync, textStyleBindings, componentBindings>>
    /\ UNCHANGED <<scoreVars, collVars>>

NextDiscovery == AppendSceneNode \/ FindComponents \/ FetchComponents

SpecDiscovery == InitDiscovery /\ [][NextDiscovery]_vars

\* the ids of the nodes below a node
RECURSIVE DescendantIds(_)
DescendantIds(node) ==
    UNION {{node.children[k].id} \cup DescendantIds(node.children[k]) :
           k \in 1..Len(node.children)}

NoneNested(list) ==
    \A i, j \in 1..Len(list) : list[j].node.id \notin DescendantIds(list[i].node)

DiscoveredIds(list) == [k \in 1..Len(list) |-> <<list[k].node.id, list[k].pageName>>]

\* C20: discovery stops descending at a COMPONENT or COMPONENT_SET node: in
\* neither front end is a discovered component a descendant of another
\* discovered component, and both front ends discover the same list of
\* components for the same pages.
C20_DiscoveryStopsAtComponents ==
    (discovered.cli # NONE /\ discovered.plugin # NONE) =>
        /\ NoneNested(discovered.cli.components)
        /\ NoneNested(discovered.plugin.components)
        /\ DiscoveredIds(discovered.cli.components)
              = DiscoveredIds(discovered.plugin.components)


(***************************************************************************)
(* The command line front end: parseArgs, buildLintData and main.  An      *)
(* option of the command line is a sequence of no value (the option is     *)
(* not given) or of one value; a path is a sequence of characters, a file  *)
(* key and a token are strings, and the empty string and the empty path    *)
(* are the values JavaScript takes as false.                               *)
(***************************************************************************)
OptionOr(option, default) == IF Len(option) > 0 THEN option[1] ELSE default

\* the format after the inference from the extension of the output path
InferFormat(output, format) ==
    IF Len(output) > 0 /\ format = "console"
    THEN IF EndsWith(output, <<".", "j", "s", "o", "n">>) THEN "json"
         ELSE IF EndsWith(output, <<".", "h", "t", "m", "l">>) \/ EndsWith(output, <<".", "h", "t", "m">>) THEN "html"
         ELSE format
    ELSE format

parseArgs(argv, env) ==
    LET output == OptionOr(argv.output, <<>>)
    IN  [fileKey   |-> OptionOr(argv.fileKey, env.FIGMA_FILE_KEY),
         token     |-> OptionOr(argv.token, env.FIGMA_PERSONAL_ACCESS_TOKEN),
         output    |-> output,
         format    |-> InferFormat(output, OptionOr(argv.format, "console")),
         auditType |-> OptionOr(argv.auditType, "system"),
         help      |-> argv.help]

\* the answer of a request that failed
RequestFailed == [failed |-> TRUE]

buildLintData(fileResponse, variablesResponse) ==
    [collections |-> IF variablesResponse = RequestFailed THEN <<>>
                     ELSE variablesResponse.collections,
     variables   |-> IF variablesResponse = RequestFailed THEN <<>>
                     ELSE variablesResponse.variables,
     textStyles  |-> fileResponse.textStyles,
     pages       |-> fileResponse.pages]

\* a run that ended before the audit, and a run that audited
CliExit(args, code) ==
    [args |-> args, audited |-> FALSE, variablesFetched |-> FALSE,
     collectionChecks |-> <<>>, textStyleChecks |-> <<>>, componentChecks |-> <<>>,
     failed |-> 0, reportThrew |-> FALSE, exitCode |-> code]

\* the output switch of main writes a report file
ReportWrites(args) ==
    \/ args.format = "json" /\ Len(args.output) > 0
    \/ args.format = "html" /\ Len(args.output) > 0
    \/ args.format \notin {"json", "html"} /\ Len(args.output) > 0

\* the output switch without its test of the HTML format
CliOutputAnyFormat(args, overall, writeThrows) ==
    IF ReportWrites(args) /\ writeThrows THEN 1
    ELSE IF overall.failed > 0 THEN 2
    ELSE 0

\* the output switch and the last test of main: the exit code of a run
\* that audited
CliOutput(args, overall, writeThrows) ==
    IF args.format = "html" /\ Len(args.output) = 0 THEN 1
    ELSE IF ReportWrites(args) /\ writeThrows THEN 1
    ELSE IF overall.failed > 0 THEN 2
    ELSE 0

CliAudited(args, variablesFetched, collectionChecks, textStyleChecks, componentChecks, overall, writeThrows) ==
    [args |-> args, audited |-> TRUE, variablesFetched |-> variablesFetched,
     collectionChecks |-> collectionChecks, textStyleChecks |-> textStyleChecks,
     componentChecks |-> componentChecks, failed |-> overall.failed,
     reportThrew |-> ReportWrites(args) /\ writeThrows,
     exitCode |-> CliOutput(args, overall, writeThrows)]

CliAudit(args, data, comps, variablesFetched, writeThrows) ==
    LET variablesStyles == args.auditType \in {"system", "variables-styles"}
        componentsToo   == args.auditType \in {"system", "components"}
        collectionChecks ==
            IF variablesStyles
            THEN validateCollectionStructure(data.collections, data.variables,
                     DEFAULT_COLLECTION_REQUIREMENTS).auditChecks
            ELSE <<>>
        textStyleChecks ==
            IF variablesStyles
            THEN validateTextStylesAgainstVariables(data.collections, data.variables,
                     data.textStyles).auditChecks
                 \o validateTextStyleBindings(data.textStyles, data.variables).auditChecks
            ELSE <<>>
        componentChecks ==
            IF componentsToo THEN validateAllComponentBindings(comps).auditChecks
            ELSE <<>>
    IN  CliAudited(args, variablesFetched, collectionChecks, textStyleChecks,
                   componentChecks,
                   calculateAuditStats(collectionChecks \o textStyleChecks
                                       \o componentChecks),
                   writeThrows)

CliRun(args, data, variablesFetched, writeThrows) ==
    CliAudit(args, data, findComponents(data.pages, 1), variablesFetched, writeThrows)

main(argv, env, fileResponse, variablesResponse, writeThrows) ==
    LET args == parseArgs(argv, env)
    IN  IF args.help THEN CliExit(args, 0)
        ELSE IF args.fileKey = "" THEN CliExit(args, 1)
        ELSE IF args.token = "" THEN CliExit(args, 1)
        ELSE IF fileResponse = RequestFailed THEN CliExit(args, 1)
        ELSE CliRun(args, buildLintData(fileResponse, variablesResponse),
                    variablesResponse # RequestFailed, writeThrows)

(***************************************************************************)
(* Runs of the command line front end: any command line, with or without   *)
(* the environment variables, on a file whose components hold a raw fill,  *)
(* a bound fill or nothing, whose variables can be fetched or not, and     *)
(* whose report can be written or not.                                     *)
(***************************************************************************)
CliNode(id, type, name, fills, children) ==
    [id |-> id, type |-> type, name |-> name, fills |-> fills, children |-> children]

CliPage(name, children) == [name |-> name, children |-> children]

CliFiles ==
    { [textStyles |-> <<>>, pages |-> <<>>],
      [textStyles |-> <<>>,
       pages |-> <<CliPage("Page 1",
                     <<CliNode(1, "COMPONENT", "Button", <<Fill(TRUE, "opaque")>>, <<>>)>>)>>],
      [textStyles |-> <<>>,
       pages |-> <<CliPage("Page 1",
                     <<CliNode(1, "FRAME", "Frame", <<>>,
                         <<CliNode(2, "COMPONENT", "Card", <<Fill(FALSE, "opaque")>>,
                                   <<>>)>>)>>)>>] }

CliVariables == { [collections |-> <<ThemeTokens>>, variables |-> <<>>] }

CliOptions ==
    [fileKey   : {<<>>, <<"abc123DEF">>},
     token     : {<<>>, <<"figd_xxx">>},
     output    : {<<>>, <<<<"r", "e", "p", "o", "r", "t", ".", "j", "s", "o", "n">>>>, <<<<"r", "e", "p", "o", "r", "t", ".", "h", "t", "m", "l">>>>, <<<<"r", "e", "p", "o", "r", "t", ".", "t", "x", "t">>>>},
     format    : {<<>>, <<"json">>, <<"html">>},
     auditType : {<<>>, <<"variables-styles">>, <<"components">>},
     help      : BOOLEAN]

CliEnvironments ==
    { [FIGMA_FILE_KEY |-> "", FIGMA_PERSONAL_ACCESS_TOKEN |-> ""],
      [FIGMA_FILE_KEY |-> "abc123DEF", FIGMA_PERSONAL_ACCESS_TOKEN |-> "figd_xxx"] }

InitCli ==
    /\ ScoreIdle
    /\ CollIdle
    /\ StyleIdle

Main ==
    /\ cli = NONE
    /\ \E argv \in CliOptions, env \in CliEnvironments,
          fileResponse \in CliFiles \cup {RequestFailed},
          variablesResponse \in CliVariables \cup {RequestFailed},
          writeThrows \in BOOLEAN :
          cli' = main(argv, env, fileResponse, variablesResponse, writeThrows)
    /\ UNCHANGED <<scoreVars, collVars>>
    /\ UNCHANGED <<textStyles, components, textStyleSync, textStyleBindings, componentBindings>>
    /\ UNCHANGED <<pages, discovered, scan, ui, audits>>

NextCli == Main

SpecCli == InitCli /\ [][NextCli]_vars

\* the checks of a run, and whether one of them failed
CliChecks == cli.collectionChecks \o cli.textStyleChecks \o cli.componentChecks

CliSomeFail == \E i \in 1..Len(CliChecks) : CliChecks[i].status = "fail"

\* the errors before the audit: no file key, no token, the file not fetched
CliSetupError == ~cli.args.help /\ ~cli.audited

\* the errors after the audit: the HTML format without an output path, and
\* a report that could not be written
CliOutputError ==
    /\ cli.audited
    /\ \/ cli.args.format = "html" /\ Len(cli.args.output) = 0
       \/ cli.reportThrew

C21_WitnessFail == cli # NONE /\ cli.audited /\ CliSomeFail /\ cli.exitCode = 2

C21_WitnessClean == cli # NONE /\ cli.audited /\ ~CliSomeFail /\ cli.exitCode = 0

\* C29: when the variables request fails the run continues, produces no
\* collection-structure check, and exits with 2 only if a check of the
\* components failed.
C29_UnavailableVariablesSkipValidation ==
    (cli # NONE /\ cli.audited /\ ~cli.variablesFetched) =>
        /\ cli.collectionChecks = <<>>
        /\ \A i \in 1..Len(cli.textStyleChecks) : cli.textStyleChecks[i].status # "fail"
        /\ (cli.exitCode = 2 =>
               \E i \in 1..Len(cli.componentChecks) :
                   cli.componentChecks[i].status = "fail")

(***************************************************************************)
(* The system audit run again and again on one file: handleSystemAudit     *)
(* from the fetched data to the message it posts.  The file is any of the  *)
(* files of the audit with malformed data, up to two components.           *)
(***************************************************************************)
MaxRuns == 2

\* the payload of the system-audit-result message
SystemAuditResult(collectionStructure, combinedTextStyleSync, componentChecks) ==
    [collectionStructure |-> collectionStructure,
     textStyleSync       |-> combinedTextStyleSync,
     componentBindings   |-> componentChecks,
     scores |-> [overall    |-> calculateAuditStats(collectionStructure
                                    \o combinedTextStyleSync \o componentChecks),
                 collection |-> calculateAuditStats(collectionStructure),
                 textStyle  |-> calculateAuditStats(combinedTextStyleSync),
                 component  |-> calculateComponentStats(componentChecks)]]

handleSystemAudit(cols, vs, styles, comps) ==
    SystemAuditResult(
        validateCollectionStructure(cols, vs, DEFAULT_COLLECTION_REQUIREMENTS).auditChecks,
        validateTextStylesAgainstVariables(cols, vs, styles).auditChecks
            \o validateTextStyleBindings(styles, vs).auditChecks,
        validateAllComponentBindings(comps).auditChecks)

\* the sequences of at most n elements of a set
RECURSIVE UpTo(_, _)
UpTo(S, n) ==
    IF n = 0 THEN {<<>>}
    ELSE UpTo(S, n - 1) \cup {Append(q, x) : q \in UpTo(S, n - 1), x \in S}

InitRepeat ==
    /\ collections = <<ThemeTokens>>
    /\ variables \in {[k \in 1..Len(q) |->
                          Variable(k, q[k].name, q[k].variableCollectionId, <<Literal>>)] :
                      q \in UpTo(FetchedVariables, 1)}
    /\ requirements = DEFAULT_COLLECTION_REQUIREMENTS
    /\ collectionValidation = NONE
    /\ extracted = <<>>
    /\ textStyles \in UpTo(FetchedTextStyles, 1)
    /\ components \in UpTo(FetchedComponents, 2)
    /\ textStyleSync = NONE
    /\ textStyleBindings = NONE
    /\ componentBindings = NONE
    /\ ScoreIdle
    /\ DocIdle

\* one run of handleSystemAudit: the data is read, the result is posted
RunSystemAudit ==
    /\ Len(audits) < MaxRuns
    /\ audits' = Append(audits,
                     [data   |-> <<collections, variables, textStyles, components>>,
                      posted |-> handleSystemAudit(collections, variables, textStyles,
                                                   components)])
    /\ UNCHANGED <<scoreVars, collVars>>
    /\ UNCHANGED <<textStyles, components, textStyleSync, textStyleBindings, componentBindings>>
    /\ UNCHANGED <<pages, discovered, cli, scan, ui>>

NextRepeat == RunSystemAudit

SpecRepeat == InitRepeat /\ [][NextRepeat]_vars

YieldQuantum == 50

\* an entry of the log: a progress message, or a visit or a validation
ScanEvent(message, validated, of) ==
    [message |-> message, validated |-> validated, of |-> of]

\* the node reached from the children of a page by a path of child indices
RECURSIVE ScanNodeAt(_, _)
ScanNodeAt(children, path) ==
    IF Len(path) = 1 THEN children[path[1]]
    ELSE ScanNodeAt(children[path[1]].children, Tail(path))

\* the children the loop of the walk runs over: those of the page, or those
\* of the node at the path
ScanChildren(ps, s) ==
    IF s.path = <<>> THEN ps[s.page].children
    ELSE ScanNodeAt(ps[s.page].children, s.path).children

Front(q) == SubSeq(q, 1, Len(q) - 1)

\* the log with a visit on the page, runs of visits written once
LogVisit(events, page, of) ==
    IF events[Len(events)] = ScanEvent("visit", page, of) THEN events
    ELSE Append(events, ScanEvent("visit", page, of))

\* walk(child): a component is pushed and not descended into, any other
\* node has its children walked
ScanWalk(ps, s, child) ==
    LET visited == [s EXCEPT !.sinceYield = @ + 1,
                             !.events = LogVisit(@, s.page, Len(ps))]
    IN  IF IsComponentType(child.type)
        THEN [visited EXCEPT !.pc = "loop", !.k = @ + 1,
                             !.components = Append(@, Component(child, ps[s.page].name))]
        ELSE [visited EXCEPT !.pc = "loop", !.path = Append(@, s.k), !.k = 1]

\* a step of the scan leaves the rest of the state alone
ScanOnly ==
    /\ UNCHANGED <<scoreVars, collVars>>
    /\ UNCHANGED <<textStyles, components, textStyleSync, textStyleBindings, componentBindings>>
    /\ UNCHANGED <<pages, discovered, cli, ui, audits>>

\* onProgress('Loading all pages...') and await figma.loadAllPagesAsync()
StartScan ==
    /\ scan = NONE
    /\ ScanOnly
    /\ scan' = [pc |-> "page", page |-> 0, path |-> <<>>, k |-> 1,
                nodesProcessed |-> 0, sinceYield |-> 0, components |-> <<>>,
                events |-> <<ScanEvent("Loading all pages", 0, 0)>>,
                i |-> 0, yielded |-> FALSE, gaps |-> <<>>,
                tried |-> NONE, posted |-> NONE]

\* the loop over the pages: the progress message of the page, the counter
\* reset; after the last page the components are returned
ScanPage ==
    /\ scan # NONE
    /\ ScanOnly
    /\ scan.pc = "page"
    /\ scan' = IF scan.page = Len(pages) THEN [scan EXCEPT !.pc = "validate"]
               ELSE [scan EXCEPT !.pc = "loop", !.page = @ + 1, !.path = <<>>, !.k = 1,
                                 !.nodesProcessed = 0,
                                 !.events = Append(@, ScanEvent("Scanning page",
                                                scan.page + 1, Len(pages)))]

\* one turn of a loop over children: the children of a page are walked as
\* they come, the children of a node are counted first, and the count
\* decides whether the walk yields before it goes on
WalkChild ==
    /\ scan # NONE
    /\ ScanOnly
    /\ scan.pc = "loop"
    /\ scan.k <= Len(ScanChildren(pages, scan))
    /\ scan' = IF scan.path = <<>>
               THEN ScanWalk(pages, scan, ScanChildren(pages, scan)[scan.k])
               ELSE IF (scan.nodesProcessed + 1) % YieldQuantum = 0
               THEN [scan EXCEPT !.nodesProcessed = @ + 1, !.pc = "yield"]
               ELSE ScanWalk(pages, [scan EXCEPT !.nodesProcessed = @ + 1],
                             ScanChildren(pages, scan)[scan.k])

\* await new Promise(resolve => setTimeout(resolve, 0))
YieldToEventLoop ==
    /\ scan # NONE
    /\ ScanOnly
    /\ scan.pc = "yield"
    /\ scan' = [scan EXCEPT !.pc = "walk", !.sinceYield = 0, !.yielded = TRUE]

\* the walk goes on after the yield
WalkAfterYield ==
    /\ scan # NONE
    /\ ScanOnly
    /\ scan.pc = "walk"
    /\ scan' = ScanWalk(pages, scan, ScanChildren(pages, scan)[scan.k])

\* a loop over children is over: the walk returns to the loop of the parent,
\* or to the loop over the pages
WalkReturn ==
    /\ scan # NONE
    /\ ScanOnly
    /\ scan.pc = "loop"
    /\ scan.k > Len(ScanChildren(pages, scan))
    /\ scan' = IF scan.path = <<>> THEN [scan EXCEPT !.pc = "page"]
               ELSE [scan EXCEPT !.path = Front(@), !.k = scan.path[Len(scan.path)] + 1]

\* validateAllComponentBindings up to its first loop: nothing to do without
\* components, else the 'being scanned' message
BeginValidation ==
    /\ scan # NONE
    /\ ScanOnly
    /\ scan.pc = "validate"
    /\ scan.i = 0
    /\ scan' = IF Len(scan.components) = 0
               THEN [scan EXCEPT !.pc = "post",
                        !.tried = ComponentBindingsTry(scan.components)]
               ELSE [scan EXCEPT !.i = 1,
                        !.events = Append(@, ScanEvent("being scanned", 0,
                                                 Len(scan.components))),
                        !.tried = [threw |-> FALSE, results |-> <<>>,
                                   componentsWithIssues |-> <<>>, auditChecks |-> <<>>,
                                   progress |-> <<ScanEvent("being scanned", 0,
                                                      Len(scan.components))>>]]

\* one turn of the first loop: the progress message of the component if it
\* has one, then its validation
ValidateComponent ==
    /\ scan # NONE
    /\ ScanOnly
    /\ scan.pc = "validate"
    /\ scan.i >= 1
    /\ scan.i <= Len(scan.components)
    /\ scan' = [scan EXCEPT
                  !.i = @ + 1,
                  !.events = Append(@ \o ScanProgress(scan.i - 1, Len(scan.components)),
                                    ScanEvent("validate", scan.i, Len(scan.components))),
                  !.gaps = Append(@, scan.yielded),
                  !.yielded = FALSE,
                  !.tried = PushComponent(
                                [@ EXCEPT !.progress =
                                    @ \o ScanProgress(scan.i - 1, Len(scan.components))],
                                scan.components[scan.i],
                                validateComponentBindings(scan.components[scan.i].node))]

\* the final progress update and the checks
CompleteValidation ==
    /\ scan # NONE
    /\ ScanOnly
    /\ scan.pc = "validate"
    /\ scan.i > Len(scan.components)
    /\ scan' = [scan EXCEPT
                  !.pc = "post",
                  !.events = Append(@, ScanEvent("Completed", Len(scan.components),
                                                 Len(scan.components))),
                  !.tried = ComponentsChecked(scan.components, @)]

\* handleComponentsAudit posts the checks and the score
PostComponentsResult ==
    /\ scan # NONE
    /\ ScanOnly
    /\ scan.pc = "post"
    /\ scan' = [scan EXCEPT
                  !.pc = "done",
                  !.posted = [componentBindings |->
                                  ComponentBindingsReturn(scan.tried).auditChecks,
                              scores |-> [component |-> calculateComponentStats(
                                  ComponentBindingsReturn(scan.tried).auditChecks)]]]

(***************************************************************************)
(* The documents of the scan: one to MaxPages pages, each an empty page, a *)
(* page of a few components and a frame, a page of a dozen components, or  *)
(* a page of one frame that holds just under or just over YieldQuantum     *)
(* layers.                                                                 *)
(***************************************************************************)
MaxPages == 2

Layer(k) == CliNode(k, "RECTANGLE", "Layer", <<>>, <<>>)

Symbol(k) == CliNode(k, "COMPONENT", "Symbol", <<Fill(k % 2 = 0, "opaque")>>, <<>>)

FrameOf(n) == CliNode(0, "FRAME", "Frame", <<>>, [k \in 1..n |-> Layer(k)])

PageShapes ==
    { <<>>,
      <<Symbol(1), CliNode(2, "FRAME", "Frame", <<>>, <<Layer(3), Symbol(4)>>), Symbol(5)>>,
      [k \in 1..12 |-> Symbol(k)],
      <<FrameOf(YieldQuantum - 1)>>,
      <<FrameOf(YieldQuantum + 5)>> }

ScanDocuments ==
    UNION { [1..n -> PageShapes] : n \in 1..MaxPages }

InitScan ==
    /\ ScoreIdle
    /\ CollIdle
    /\ textStyles = <<>>
    /\ components = <<>>
    /\ textStyleSync = NONE
    /\ textStyleBindings = NONE
    /\ componentBindings = NONE
    /\ discovered = [cli |-> NONE, plugin |-> NONE]
    /\ RunIdle
    /\ \E shapes \in ScanDocuments :
          pages = [i \in 1..Len(shapes) |-> CliPage("Page", shapes[i])]

NextScan ==
    \/ StartScan \/ ScanPage \/ WalkChild \/ YieldToEventLoop \/ WalkAfterYield
    \/ WalkReturn \/ BeginValidation \/ ValidateComponent \/ CompleteValidation
    \/ PostComponentsResult

SpecScan == InitScan /\ [][NextScan]_vars

\* C23: at no point of a scan have more than YieldQuantum nodes been
\* visited since the last yield or since the walk began.
C23_YieldEveryQuantum == scan # NONE => scan.sinceYield <= YieldQuantum

\* C24: between the validation of any two consecutive components of a scan
\* there is at least one cooperative yield.
C24_YieldBetweenComponents ==
    scan # NONE => \A i \in 2..Len(scan.gaps) : scan.gaps[i]

\* the walk part and the validation part of the log
WalkLog ==
    SelectSeq(scan.events,
              LAMBDA e : e.message \in {"Loading all pages", "Scanning page", "visit"})

ValidationLog ==
    SelectSeq(scan.events,
              LAMBDA e : e.message \in {"being scanned", "Scanning", "validate", "Completed"})

\* the page messages among the first j entries of the walk part
PageMessages(j) ==
    SelectSeq(SubSeq(WalkLog, 1, j), LAMBDA e : e.message = "Scanning page")

\* the validation part the claim describes for n components, from component
\* i (counted from 0) on
RECURSIVE ValidationOrder(_, _)
ValidationOrder(i, n) ==
    IF i = n THEN <<ScanEvent("Completed", n, n)>>
    ELSE (IF i % 10 = 0 \/ i = n - 1 THEN <<ScanEvent("Scanning", i + 1, n)>> ELSE <<>>)
         \o <<ScanEvent("validate", i + 1, n)>> \o ValidationOrder(i + 1, n)

IsPrefix(q, r) == Len(q) <= Len(r) /\ q = SubSeq(r, 1, Len(q))

\* C25: the page messages come one per page in page order, each before any
\* node of its page is visited; with n > 0 components the validation emits
\* 'being scanned', then for each component its 'Scanning' message exactly
\* when i mod 10 = 0 or i = n-1 and then validates it, and 'Completed' last;
\* with no component it emits nothing.
C25_ProgressOrder ==
    scan # NONE =>
        /\ \A j \in 1..Len(WalkLog) :
              /\ WalkLog[j].message = "Scanning page" =>
                     WalkLog[j].validated = Len(PageMessages(j))
              /\ WalkLog[j].message = "visit" =>
                     /\ Len(PageMessages(j)) = WalkLog[j].validated
                     /\ PageMessages(j)[Len(PageMessages(j))]
                            = ScanEvent("Scanning page", WalkLog[j].validated, Len(pages))
        /\ scan.pc \in {"post", "done"} => Len(PageMessages(Len(WalkLog))) = Len(pages)
        /\ IF Len(scan.components) = 0 THEN ValidationLog = <<>>
           ELSE /\ IsPrefix(ValidationLog,
                       <<ScanEvent("being scanned", 0, Len(scan.components))>>
                           \o ValidationOrder(0, Len(scan.components)))
                /\ scan.pc \in {"post", "done"} =>
                       ValidationLog = <<ScanEvent("being scanned", 0, Len(scan.components))>>
                           \o ValidationOrder(0, Len(scan.components))

\* a scan of two pages found more than twenty components, validated them
\* all and posted its result
C25_Witness ==
    /\ scan # NONE
    /\ scan.pc = "done"
    /\ Len(pages) = 2
    /\ Len(scan.components) > 20

(***************************************************************************)
(* The message handler of the plugin: handleUIMessage and the three audits *)
(* it dispatches to, as the list of messages posted to the UI.  A fetch    *)
(* of the plugin API either answers or rejects.                            *)
(***************************************************************************)
sendMessageToUI(type, data) == <<[type |-> type, data |-> data]>>

\* progressCallback: figma.ui.postMessage of an audit-progress message
progressCallback(message) == [type |-> "audit-progress", data |-> message]

PostProgress(events) == [k \in 1..Len(events) |-> progressCallback(events[k])]

\* the progress messages of fetchComponents: 'Loading all pages...', then,
\* when the pages are loaded, one message per page
fetchComponentsProgress(ps, loaded) ==
    <<ScanEvent("Loading all pages", 0, 0)>>
        \o (IF loaded THEN [i \in 1..Len(ps) |-> ScanEvent("Scanning page", i, Len(ps))]
            ELSE <<>>)

\* what an audit handler did: the messages it posted, and whether it threw
Handled(posted, threw) == [posted |-> posted, threw |-> threw]

handleSystemAuditMessage(file, dataFetched, pagesLoaded) ==
    IF ~dataFetched
    THEN Handled(sendMessageToUI("system-audit-result", [error |-> "rejected"]), FALSE)
    ELSE IF ~pagesLoaded
    THEN Handled(PostProgress(fetchComponentsProgress(file.pages, FALSE))
                     \o sendMessageToUI("system-audit-result", [error |-> "rejected"]),
                 FALSE)
    ELSE Handled(PostProgress(fetchComponentsProgress(file.pages, TRUE))
                     \o PostProgress(validateAllComponentBindings(
                                         fetchComponents(file.pages, 1)).progress)
                     \o sendMessageToUI("system-audit-result",
                            handleSystemAudit(file.collections, file.variables,
                                file.textStyles, fetchComponents(file.pages, 1))),
                 FALSE)

handleVariablesStylesAudit(file, dataFetched) ==
    IF ~dataFetched
    THEN Handled(sendMessageToUI("variables-styles-audit-result", [error |-> "rejected"]),
                 FALSE)
    ELSE Handled(sendMessageToUI("variables-styles-audit-result",
                     [f \in {"collectionStructure", "textStyleSync", "scores"} |->
                         IF f = "scores"
                         THEN [g \in {"overall", "collection", "textStyle"} |->
                                  handleSystemAudit(file.collections, file.variables,
                                      file.textStyles, <<>>).scores[g]]
                         ELSE handleSystemAudit(file.collections, file.variables,
                                  file.textStyles, <<>>)[f]]),
                 FALSE)

\* the components audit without its catch block: a rejected fetch is thrown
\* on to the caller
handleComponentsAuditUncaught(file, pagesLoaded) ==
    IF ~pagesLoaded
    THEN Handled(PostProgress(fetchComponentsProgress(file.pages, FALSE)), TRUE)
    ELSE Handled(PostProgress(fetchComponentsProgress(file.pages, TRUE))
                     \o PostProgress(validateAllComponentBindings(
                                         fetchComponents(file.pages, 1)).progress)
                     \o sendMessageToUI("components-audit-result",
                            [componentBindings |-> validateAllComponentBindings(
                                 fetchComponents(file.pages, 1)).auditChecks,
                             scores |-> [component |-> calculateComponentStats(
                                 validateAllComponentBindings(
                                     fetchComponents(file.pages, 1)).auditChecks)]]),
                 FALSE)

handleComponentsAudit(file, pagesLoaded) ==
    IF ~pagesLoaded
    THEN Handled(PostProgress(fetchComponentsProgress(file.pages, FALSE))
                     \o sendMessageToUI("components-audit-result", [error |-> "rejected"]),
                 FALSE)
    ELSE Handled(PostProgress(fetchComponentsProgress(file.pages, TRUE))
                     \o PostProgress(validateAllComponentBindings(
                                         fetchComponents(file.pages, 1)).progress)
                     \o sendMessageToUI("components-audit-result",
                            [componentBindings |-> validateAllComponentBindings(
                                 fetchComponents(file.pages, 1)).auditChecks,
                             scores |-> [component |-> calculateComponentStats(
                                 validateAllComponentBindings(
                                     fetchComponents(file.pages, 1)).auditChecks)]]),
                 FALSE)

\* the switch of handleUIMessage
DispatchUIMessage(type, file, dataFetched, pagesLoaded) ==
    CASE type = "analyze-system" -> handleSystemAuditMessage(file, dataFetched, pagesLoaded)
      [] type = "analyze-variables-styles" -> handleVariablesStylesAudit(file, dataFetched)
      [] type = "analyze-components" -> handleComponentsAudit(file, pagesLoaded)
      [] OTHER -> Handled(<<>>, FALSE)

\* the catch block of handleUIMessage posts a system-audit-result with the
\* error; the handler itself does not throw
UIMessageHandled(type, handled) ==
    [type   |-> type,
     posted |-> IF handled.threw
                THEN handled.posted
                         \o sendMessageToUI("system-audit-result", [error |-> "rejected"])
                ELSE handled.posted,
     threw  |-> FALSE]

handleUIMessage(type, file, dataFetched, pagesLoaded) ==
    UIMessageHandled(type, DispatchUIMessage(type, file, dataFetched, pagesLoaded))

(***************************************************************************)
(* Messages of the UI to the plugin, on files of one or two small pages    *)
(* with or without the Theme collection and a text style.                  *)
(***************************************************************************)
MessageTypes ==
    {"analyze-system", "analyze-variables-styles", "analyze-components",
     "analyze-components-current-page", "close"}

MessagePages ==
    { <<>>,
      <<Symbol(1), CliNode(2, "FRAME", "Frame", <<>>, <<Layer(3), Symbol(4)>>), Symbol(5)>>,
      [k \in 1..12 |-> Symbol(k)] }

InitMessages ==
    /\ ScoreIdle
    /\ collections \in {<<>>, <<ThemeTokens>>}
    /\ variables = <<>>
    /\ requirements = DEFAULT_COLLECTION_REQUIREMENTS
    /\ collectionValidation = NONE
    /\ extracted = <<>>
    /\ textStyles \in UpTo(FetchedTextStyles, 1)
    /\ components = <<>>
    /\ textStyleSync = NONE
    /\ textStyleBindings = NONE
    /\ componentBindings = NONE
    /\ discovered = [cli |-> NONE, plugin |-> NONE]
    /\ RunIdle
    /\ \E shapes \in UNION { [1..n -> MessagePages] : n \in 1..MaxPages } :
          pages = [i \in 1..Len(shapes) |-> CliPage("Page", shapes[i])]

HandleUIMessage ==
    /\ ui = NONE
    /\ \E type \in MessageTypes, dataFetched \in BOOLEAN, pagesLoaded \in BOOLEAN :
          ui' = handleUIMessage(type,
                    [collections |-> collections, variables |-> variables,
                     textStyles |-> textStyles, pages |-> pages],
                    dataFetched, pagesLoaded)
    /\ UNCHANGED <<scoreVars, collVars>>
    /\ UNCHANGED <<textStyles, components, textStyleSync, textStyleBindings, componentBindings>>
    /\ UNCHANGED <<pages, discovered, cli, scan, audits>>

NextMessages == HandleUIMessage

SpecMessages == InitMessages /\ [][NextMessages]_vars

\* the result messages among the messages posted, and the result type of a
\* message type
ResultsPosted == SelectSeq(ui.posted, LAMBDA m : m.type # "audit-progress")

ResultType(type) ==
    CASE type = "analyze-system" -> "system-audit-result"
      [] type = "analyze-variables-styles" -> "variables-styles-audit-result"
      [] type = "analyze-components" -> "components-audit-result"

\* C26: for a message of one of the three audit types the handler does not
\* throw and posts exactly one result message, of the result type of the
\* audit, that carries the check lists with scores or an error field, after
\* every progress message; for any other type it posts no result.
C26_OneResultPerMessage ==
    ui # NONE =>
        /\ ~ui.threw
        /\ IF ui.type \in {"analyze-system", "analyze-variables-styles",
                            "analyze-components"}
           THEN /\ Len(ResultsPosted) = 1
                /\ ResultsPosted[1].type = ResultType(ui.type)
                /\ ui.posted[Len(ui.posted)] = ResultsPosted[1]
                /\ \/ DOMAIN ResultsPosted[1].data = {"error"}
                   \/ /\ "scores" \in DOMAIN ResultsPosted[1].data
                      /\ "error" \notin DOMAIN ResultsPosted[1].data
                      /\ DOMAIN ResultsPosted[1].data \cap
                             {"collectionStructure", "componentBindings"} # {}
           ELSE ResultsPosted = <<>>

\* a system audit posted progress messages of the pages and of the
\* components and then its result with scores
C26_Witness ==
    /\ ui # NONE
    /\ ui.type = "analyze-system"
    /\ Len(ui.posted) > 5
    /\ "scores" \in DOMAIN ui.posted[Len(ui.posted)].data

\* a components audit whose page load was rejected posted an error result
C26_WitnessError ==
    /\ ui # NONE
    /\ ui.type = "analyze-components"
    /\ Len(ui.posted) = 2
    /\ DOMAIN ui.posted[2].data = {"error"}

\* the failing checks emitted for a category of a validated collection
FailChecksFor(k, rc) ==
    SelectSeq(AuditChecks, LAMBDA c :
        /\ c.status = "fail"
        /\ c.check.displayName = Results[k].matchedRequirement
        /\ c.check.category = rc.name)

\* C27: for a present category of an invalid collection whose only rule is
\* a mirror rule, the number of fail checks emitted for it is the number of
\* non-empty differences between its sub-category set and the source's:
\* one when only sizes are missing, one when only extra sizes exist, two
\* when both, none when the sets are equal.
C27_FailPerAsymmetricDifference ==
    collectionValidation # NONE =>
        \A k \in 1..Len(Results) :
            ~Results[k].isValid =>
                \A rc \in {x \in PresentCategories(k) :
                              /\ x.mirrorCategory # <<>>
                              /\ x.subCategories = <<>>
                              /\ x.subCategoryPattern = NoPattern} :
                    LET C == SubsIn(extracted[k], rc.name)
                        S == SubsIn(extracted[k], rc.mirrorCategory)
                    IN  Len(FailChecksFor(k, rc))
                            = (IF S \ C # {} THEN 1 ELSE 0) + (IF C \ S # {} THEN 1 ELSE 0)

(***************************************************************************)
(* A component with one layer, a text or not, whose font size, line height *)
(* and letter spacing are absent, mixed, zero, automatic or set, each      *)
(* bound to a variable or not.                                             *)
(***************************************************************************)
FontSizes == {Absent, Mixed, Number(0), Number(12)}

LineHeights ==
    {Absent, Mixed, Measure(0, "AUTO"), Measure(0, "PIXELS"), Measure(0, "PERCENT"),
     Measure(150, "PERCENT"), Measure(20, "PIXELS")}

LetterSpacings ==
    {Absent, Mixed, Measure(0, "PIXELS"), Measure(0, "PERCENT"), Measure(-1, "PIXELS"),
     Measure(2, "PERCENT")}

LayerTypes == {"TEXT", "FRAME", "RECTANGLE"}

TextLayer(type, fontSize, lineHeight, letterSpacing, boundVariables) ==
    [name |-> "Label", type |-> type, fills |-> <<>>, children |-> <<>>,
     fontSize |-> fontSize, lineHeight |-> lineHeight, letterSpacing |-> letterSpacing,
     boundVariables |-> boundVariables]

InitTextLayer ==
    /\ ScoreIdle
    /\ CollIdle
    /\ DocIdle
    /\ textStyles = <<>>
    /\ textStyleSync = NONE
    /\ textStyleBindings = NONE
    /\ componentBindings = NONE
    /\ \E type \in LayerTypes, fontSize \in FontSizes, lineHeight \in LineHeights,
          letterSpacing \in LetterSpacings,
          boundVariables \in [{"fontSize", "lineHeight", "letterSpacing"} -> {NoBinding, 7}] :
          components =
              <<Component(Node("Button", <<>>,
                               <<TextLayer(type, fontSize, lineHeight, letterSpacing,
                                           boundVariables)>>), "Page 1")>>

AuditTextLayer ==
    /\ componentBindings = NONE
    /\ componentBindings' = validateAllComponentBindings(components)
    /\ UNCHANGED <<textStyles, components, textStyleSync, textStyleBindings>>
    /\ UNCHANGED <<scoreVars, collVars, docVars>>

NextTextLayer == AuditTextLayer

SpecTextLayer == InitTextLayer /\ [][NextTextLayer]_vars

\* the layer of the component, and whether a value of it is a default: a
\* zero, or for line height and letter spacing a value that is not set
TheLayer == components[1].node.children[1]

IsDefault(prop) ==
    IF prop = "fontSize"
    THEN TheLayer.fontSize.kind = "number" /\ TheLayer.fontSize.value = 0
    ELSE TheLayer[prop].kind # "object" \/ TheLayer[prop].value = 0

\* C28: the raw typography values counted for the component are, for a TEXT
\* layer, its properties among fontSize, lineHeight and letterSpacing that
\* have no bound variable and whose value is not a zero or automatic
\* default; for a layer of another type there are none.
C28_TypographyRawValues ==
    componentBindings # NONE =>
        componentBindings.results[1].rawValueCounts.typography =
            IF TheLayer.type = "TEXT"
            THEN Cardinality({prop \in {"fontSize", "lineHeight", "letterSpacing"} :
                                 /\ TheLayer.boundVariables[prop] = NoBinding
                                 /\ ~IsDefault(prop)})
            ELSE 0

\* a text with an unbound font size of 12, an unbound line height of 0% and
\* a bound letter spacing has one raw typography value
C28_Witness ==
    /\ componentBindings # NONE
    /\ TheLayer.type = "TEXT"
    /\ TheLayer.fontSize = Number(12)
    /\ TheLayer.lineHeight = Measure(0, "PERCENT")
    /\ TheLayer.boundVariables = [fontSize |-> NoBinding, lineHeight |-> NoBinding,
                                  letterSpacing |-> 7]
    /\ componentBindings.results[1].rawValueCounts.typography = 1
    /\ componentBindings.auditChecks[1].status = "fail"

(***************************************************************************)
(* A component as the Figma API hands it over: its fills, and the binding  *)
(* array of its fills whose entry at an index holds an id or none.  The    *)
(* plugin adapts it in fetchComponents; the audit scans the adapted node.  *)
(***************************************************************************)
SourcePaints ==
    { [type |-> "SOLID", visible |-> TRUE, color |-> "opaque"],
      [type |-> "SOLID", visible |-> FALSE, color |-> "opaque"],
      [type |-> "GRADIENT_LINEAR", visible |-> TRUE, color |-> "opaque"] }

SourceComponent(fills, bindings) ==
    [id |-> 1, type |-> "COMPONENT", name |-> "Button", fills |-> fills,
     boundVariables |-> [fills |-> bindings], children |-> <<>>]

InitAdapt ==
    /\ ScoreIdle
    /\ CollIdle
    /\ RunIdle
    /\ discovered = [cli |-> NONE, plugin |-> NONE]
    /\ textStyles = <<>>
    /\ components = <<>>
    /\ textStyleSync = NONE
    /\ textStyleBindings = NONE
    /\ componentBindings = NONE
    /\ \E fills \in UpTo(SourcePaints, MaxPaints) :
          \E bindings \in UNION {[1..m -> {NoBinding, 7}] : m \in 0..Len(fills)} :
              pages = <<CliPage("Page 1", <<SourceComponent(fills, bindings)>>)>>

\* fetchComponents: the components of the pages, adapted
AdaptComponents ==
    /\ components = <<>>
    /\ components' = fetchComponents(pages, 1)
    /\ UNCHANGED <<textStyles, textStyleSync, textStyleBindings, componentBindings>>
    /\ UNCHANGED <<scoreVars, collVars, docVars>>

AuditAdapted ==
    /\ components # <<>>
    /\ componentBindings = NONE
    /\ componentBindings' = validateAllComponentBindings(components)
    /\ UNCHANGED <<textStyles, components, textStyleSync, textStyleBindings>>
    /\ UNCHANGED <<scoreVars, collVars, docVars>>

NextAdapt == AdaptComponents \/ AuditAdapted

SpecAdapt == InitAdapt /\ [][NextAdapt]_vars

\* the component of the document, and the fills of it that are visible,
\* solid and without a binding at their own index
TheSource == pages[1].children[1]

TrulyUnbound ==
    {i \in 1..Len(TheSource.fills) :
        /\ TheSource.fills[i].type = "SOLID"
        /\ TheSource.fills[i].visible
        /\ ~HasBinding(TheSource.boundVariables.fills, i)}

\* C30: after adaptation the fill at index i has a binding at index i iff
\* the source node had a binding with an id at index i, and the raw fills
\* the scanner counts on the adapted node are the truly unbound fills of
\* the source node.
C30_BindingsKeepTheirIndex ==
    /\ components # <<>> =>
           \A i \in 1..Len(TheSource.fills) :
               HasBinding(components[1].node.boundVariables.fills, i)
                   <=> HasBinding(TheSource.boundVariables.fills, i)
    /\ componentBindings # NONE =>
           componentBindings.results[1].rawValueCounts.fill = Cardinality(TrulyUnbound)

\* the part of C30 about the counts alone
C30_RawCountIsTrulyUnbound ==
    componentBindings # NONE =>
        componentBindings.results[1].rawValueCounts.fill = Cardinality(TrulyUnbound)
=============================================================================
